---- MODULE Spec2Model ----
(***************************************************************************)
(* Save / retrieve orchestration of the TechHub password manager:          *)
(* PasswordManager.tsx (VersionResolver getCurrentUserRecords, executor    *)
(* executeTransactionWithRetry, savePassword, createUserRecords,           *)
(* checkUserRecords, retrievePassword), PasswordList.tsx, sealProtocol.ts  *)
(* and crypto.ts, run against a versioned ledger, a signing wallet and     *)
(* the browser's localStorage.                                             *)
(*                                                                         *)
(* Strings the code concatenates or searches are sequences of tokens, so   *)
(* that `a + b` is \o and String.includes is membership of a phrase.       *)
(***************************************************************************)
EXTENDS Integers, Sequences, FiniteSets, TLC

\* ------------------------------------------------------------------ bounds
MaxSaves == 1          \* savePassword invocations in one run
MaxObjects == 2        \* UserRecords objects the ledger may come to hold
MaxExternal == 5       \* mutations of a record made outside this application
MaxExtEntries == 1     \* of which entries appended by another client
MaxSwitches == 1       \* wallet account changes
MaxAttempts == 8       \* largest maxRetries an execute call is given on its own
MaxPuts == 3           \* storeInWalrus calls made in a row on their own

\* ------------------------------------------------------- program constants
DefaultMaxRetries == 5     \* executeTransactionWithRetry(..., maxRetries = 5)
ResolverMaxRetries == 3    \* getCurrentUserRecords(maxRetries = 3)
ConflictBackoffMs == 2000  \* waitTime = attempt * 2000
ResolverBackoffMs == 1500  \* setTimeout(resolve, attempt * 1500)
SealMaxRetries == 3        \* requestSealApproval: const maxRetries = 3
SealBackoffMs == 1000      \* setTimeout(resolve, attempt * 1000)

Null == 0                  \* null / undefined of an object id held in state
Calls == {1}               \* savePassword invocations in flight at one time
Accounts == {"A", "B"}     \* wallet.account.address

\* ------------------------------------------------------------ error texts
\* An Error's message is the set of phrases that String.includes can find in it.
RejectionPhrases == {"User rejection", "UserRejectionError"}
StalePhrases == {"is not available for consumption", "current version"}

\* What the ledger answers to a transaction built on a stale object version.
StaleTexts == {{"is not available for consumption"}, {"current version"}}
\* What a wallet may answer when the user dismisses the prompt.
CancelTexts == {{"User rejection"}, {"UserRejectionError", "current version"}}
\* Other failures of a submission.
OtherTexts == {{"Insufficient funds"}, {"MoveAbort"}}
ReadErrorText == {"fetch failed"}
NoRecordsText == {"No user records found"}            \* PasswordManager.tsx:142
CreationFailedText == {"Failed to create user records"} \* PasswordManager.tsx:397
StatusFailedText == {"Transaction failed with status"}  \* PasswordManager.tsx:432
EncryptFailedText == {"InvalidCharacterError"}
StoreFailedText == {"Walrus storage failed"}          \* crypto.ts:105
NoText == {}

includes(message, phrase) == phrase \in message

VARIABLES
    objs,          \* ledger: UserRecords objects, in the order getOwnedObjects lists them
    nextId,        \* ledger: next object id
    localStorage,  \* blob store: key -> stored string
    nextBlob,      \* number of walrus ids generated so far
    account,       \* wallet.account.address
    userRecords,   \* React state: id of the held UserRecords object, or Null
    passwords,     \* React state: the listed entries
    loading,       \* React state
    pendingCheck,  \* the connect effect's checkUserRecords is awaiting its read
    rt,            \* retrievePassword in flight: [busy, walrusId, outcome, approved]
    rtReads,       \* walrus ids retrievePassword has asked the blob store for
    sv,            \* per savePassword invocation: position and locals
    nSaves, nExt, nSwitch,
    probe,         \* a function of the code applied on its own: [op, arg, out]
    sealStatus     \* SealStatus: the status shown and requestSealApproval in flight

vars == <<objs, nextId, localStorage, nextBlob, account, userRecords, passwords,
          loading, pendingCheck, rt, rtReads, sv, nSaves, nExt, nSwitch, probe, sealStatus>>

\* ------------------------------------------------------------ blob store
\* A storage key that does not depend on the walrus id.
getStorageKeyShared(walrusId) == <<"walrus_", "storage_">>

\* crypto.ts getStorageKey
getStorageKey(walrusId) == <<"walrus_", "storage_">> \o walrusId

\* crypto.ts storeInWalrus: `walrus_${timestamp}_${randomPart}`, the n-th one generated
BlobTokens == <<"t1_r1", "t2_r2", "t3_r3", "t4_r4", "t5_r5", "t6_r6">>
\* an id without the timestamp and the random part
WalrusIdFixed(n) == <<"walrus_", BlobTokens[1]>>

WalrusId(n) == <<"walrus_", BlobTokens[n]>>

UnknownId == <<"unknown">>     \* the sentinel 'unknown'
\* a walrus id generated in another browser: its blob is not in this localStorage
ForeignId == <<"walrus_", "t0_r0">>
EmptyId == <<>>                \* the empty string

\* crypto.ts retrieveFromWalrus: enhanced key first, then the legacy key; a
\* missing or empty item is "not found". Result: [ok, data].
legacyStorageKey(walrusId) == <<"walrus_">> \o walrusId

\* localStorage.getItem: null for a key that was never set
NullItem == [enc |-> "null", password |-> "", sealId |-> 0, approved |-> FALSE]
getItem(store, key) == IF key \in DOMAIN store THEN store[key] ELSE NullItem

retrieveFromWalrus(store, walrusId) ==
    LET first == getItem(store, getStorageKey(walrusId))
        data  == IF first = NullItem
                 THEN getItem(store, legacyStorageKey(walrusId)) ELSE first
    IN  [ok |-> data # NullItem, data |-> data]

\* ------------------------------------------------- the envelope as text
\* A string is the sequence of its UTF-16 code units. The machine keeps the
\* envelopes it makes in parsed form; these operators are what
\* sealEncryptPassword and sealDecryptPassword do to the text, character by
\* character.
Undefined == <<0 - 1>>        \* undefined: no code unit is negative
QUOTE == 34
BACKSLASH == 92
\* Stand-ins, one code unit each, for the fixed ASCII fragments of the JSON
\* text: {"password":   ,"website":   ,"sealId":   ,..."approved":false,...}
\* and ,..."approved":true,...}
KeyPassword == 1
KeyWebsite == 2
KeySealId == 3
TailNotApproved == 4
TailApproved == 5
DIGIT0 == 48

\* a stringify that copies the characters as they are
escapeNone(s) == s

\* JSON.stringify of a string: quotes, with " and \ escaped
RECURSIVE escape(_)
escape(s) ==
    IF s = <<>> THEN <<>>
    ELSE (IF Head(s) \in {QUOTE, BACKSLASH} THEN <<BACKSLASH, Head(s)>> ELSE <<Head(s)>>)
         \o escape(Tail(s))

quote(s) == <<QUOTE>> \o escape(s) \o <<QUOTE>>

\* sealProtocol.ts:177-189 JSON.stringify(sealData): a property whose value is
\* undefined is left out
JSONstringify(d) ==
    <<KeyPassword>> \o quote(d.password)
    \o (IF d.website = Undefined THEN <<>> ELSE <<KeyWebsite>> \o quote(d.website))
    \o <<KeySealId, DIGIT0 + d.sealId>>
    \o <<IF d.approved THEN TailApproved ELSE TailNotApproved>>

\* JSON.parse of a string literal that starts at text[i]: [ok, value, next]
RECURSIVE scanString(_, _, _)
scanString(text, i, acc) ==
    IF i > Len(text) THEN [ok |-> FALSE, value |-> <<>>, next |-> i]
    ELSE IF text[i] = QUOTE THEN [ok |-> TRUE, value |-> acc, next |-> i + 1]
    ELSE IF text[i] = BACKSLASH
         THEN IF i + 1 <= Len(text) /\ text[i + 1] \in {QUOTE, BACKSLASH}
              THEN scanString(text, i + 2, Append(acc, text[i + 1]))
              ELSE [ok |-> FALSE, value |-> <<>>, next |-> i]
    ELSE scanString(text, i + 1, Append(acc, text[i]))

readString(text, i) ==
    IF i <= Len(text) /\ text[i] = QUOTE THEN scanString(text, i + 1, <<>>)
    ELSE [ok |-> FALSE, value |-> <<>>, next |-> i]

ParseError == [ok |-> FALSE, password |-> <<>>, website |-> Undefined, sealId |-> 0,
               approved |-> FALSE]

\* sealProtocol.ts:217 JSON.parse: the object back, or a SyntaxError
JSONparse(text) ==
    IF Len(text) < 1 \/ text[1] # KeyPassword THEN ParseError
    ELSE LET p  == readString(text, 2)
             hw == p.ok /\ p.next <= Len(text) /\ text[p.next] = KeyWebsite
             w  == IF hw THEN readString(text, p.next + 1)
                   ELSE [ok |-> p.ok, value |-> Undefined, next |-> p.next]
             j  == w.next
         IN  IF /\ p.ok /\ w.ok
                /\ Len(text) = j + 2
                /\ text[j] = KeySealId
                /\ text[j + 1] \in DIGIT0..(DIGIT0 + 9)
                /\ text[j + 2] \in {TailApproved, TailNotApproved}
             THEN [ok |-> TRUE, password |-> p.value, website |-> w.value,
                   sealId |-> text[j + 1] - DIGIT0,
                   approved |-> text[j + 2] = TailApproved]
             ELSE ParseError

\* btoa: three bytes make four sextets, 64 stands for the padding '='; a code
\* unit above 255 makes it throw InvalidCharacterError
PAD == 64
RECURSIVE sextets(_)
sextets(b) ==
    IF Len(b) = 0 THEN <<>>
    ELSE IF Len(b) = 1
         THEN <<b[1] \div 4, (b[1] % 4) * 16, PAD, PAD>>
    ELSE IF Len(b) = 2
         THEN <<b[1] \div 4, (b[1] % 4) * 16 + b[2] \div 16, (b[2] % 16) * 4, PAD>>
    ELSE <<b[1] \div 4, (b[1] % 4) * 16 + b[2] \div 16,
           (b[2] % 16) * 4 + b[3] \div 64, b[3] % 64>>
         \o sextets(SubSeq(b, 4, Len(b)))

btoa(s) ==
    IF \A i \in 1..Len(s) : s[i] \in 0..255
    THEN [ok |-> TRUE, text |-> sextets(s)]
    ELSE [ok |-> FALSE, text |-> <<>>]

\* atob: the bytes back; it throws on a text that is not base64
RECURSIVE bytes(_)
bytes(t) ==
    IF Len(t) = 0 THEN <<>>
    ELSE IF t[3] = PAD THEN <<t[1] * 4 + t[2] \div 16>>
    ELSE IF t[4] = PAD
         THEN <<t[1] * 4 + t[2] \div 16, (t[2] % 16) * 16 + t[3] \div 4>>
    ELSE <<t[1] * 4 + t[2] \div 16, (t[2] % 16) * 16 + t[3] \div 4,
           (t[3] % 4) * 64 + t[4]>>
         \o bytes(SubSeq(t, 5, Len(t)))

isBase64(t) ==
    /\ Len(t) % 4 = 0
    /\ \A i \in 1..Len(t) :
          /\ t[i] \in 0..PAD
          /\ t[i] = PAD => /\ i >= Len(t) - 1
                           /\ i = Len(t) - 1 => t[Len(t)] = PAD

atob(t) ==
    IF isBase64(t) THEN [ok |-> TRUE, text |-> bytes(t)]
    ELSE [ok |-> FALSE, text |-> <<>>]

\* sealProtocol.ts:157-201 on text: approved is false, the sealId is new
sealEncryptText(password, website, n) ==
    btoa(JSONstringify([password |-> password, website |-> website, sealId |-> n,
                        approved |-> FALSE]))

\* sealProtocol.ts:206-237 on text: atob, JSON.parse, the fields; a throw of
\* either is rethrown as 'Seal decryption failed'
sealDecryptText(text) ==
    LET raw == atob(text)
    IN  IF raw.ok THEN JSONparse(raw.text) ELSE ParseError

\* --------------------------------------------------- the envelope, parsed
\* sealProtocol.ts sealEncryptPassword: approval is skipped, approved = false;
\* btoa throws on a character outside Latin-1.
Passwords == {"p@ssw0rd", "non-latin1"}
isLatin1(s) == s # "non-latin1"

sealEncryptPassword(password, n) ==
    [ok |-> isLatin1(password),
     encryptedData |-> [enc |-> "b64", password |-> password, sealId |-> n,
                       approved |-> FALSE]]

\* sealProtocol.ts sealDecryptPassword: atob + JSON.parse, else it throws. An
\* item is an envelope in parsed form ("b64"), a stored text ("text"), or
\* something that is neither.
sealDecryptPassword(encryptedData) ==
    IF encryptedData.enc = "b64"
    THEN [ok |-> TRUE, password |-> encryptedData.password,
          approved |-> encryptedData.approved]
    ELSE IF encryptedData.enc = "text"
         THEN LET d == sealDecryptText(encryptedData.text)
              IN  [ok |-> d.ok, password |-> d.password, approved |-> d.approved]
    ELSE [ok |-> FALSE, password |-> "", approved |-> FALSE]

\* an approval check that asks only whether the blob is there
checkSealApprovalFromDataPresent(store, walrusId) == retrieveFromWalrus(store, walrusId).ok

\* PasswordManager.tsx checkSealApprovalFromData: any failure reads as false
checkSealApprovalFromData(store, walrusId) ==
    LET got == retrieveFromWalrus(store, walrusId)
    IN  IF got.ok THEN sealDecryptPassword(got.data).approved ELSE FALSE

\* A store that hands out the walrus id without the write having succeeded.
storeInWalrusUnverified(store, data, n, quotaOk) ==
    LET walrusId == WalrusId(n)
        key      == getStorageKey(walrusId)
        written  == [k \in DOMAIN store \cup {key} |->
                        IF k = key THEN data ELSE store[k]]
    IN  [ok |-> TRUE, walrusId |-> walrusId,
         store |-> IF quotaOk THEN written ELSE store]

\* crypto.ts:74-107 storeInWalrus: a new walrus id, setItem under the enhanced
\* key (it throws when the quota is exceeded), then the read back that must be
\* truthy. Result: [ok, walrusId, store].
storeInWalrus(store, data, n, quotaOk) ==
    LET walrusId == WalrusId(n)
        key      == getStorageKey(walrusId)
        written  == [k \in DOMAIN store \cup {key} |->
                        IF k = key THEN data ELSE store[k]]
    IN  IF quotaOk /\ getItem(written, key) # NullItem
        THEN [ok |-> TRUE, walrusId |-> walrusId, store |-> written]
        ELSE [ok |-> FALSE, walrusId |-> EmptyId, store |-> store]

\* -------------------------------------------------------------- ledger
Owned(addr) == SelectSeq(objs, LAMBDA o : o.owner = addr)

ObjIndex(id) == CHOOSE i \in 1..Len(objs) : objs[i].id = id
ObjExists(id) == \E i \in 1..Len(objs) : objs[i].id = id
ObjOf(id) == objs[ObjIndex(id)]

\* client.getOwnedObjects answers, or it throws (network, RPC node)
ReadOutcomes == {TRUE, FALSE}

\* ------------------------------------------------- checkUserRecords (list)
\* PasswordManager.tsx:236-265, one entry of fields.entries
\* The entries of the model carry the two fields save_entry is called with
\* (408-419), so the id of a listed entry is the fallback `entry-${index}` of
\* line 241, index counting from 0.
processEntry(store, e, index) ==
    LET entryWalrusId == IF e.walrus_id # EmptyId THEN e.walrus_id ELSE UnknownId
        sealApproved  == IF entryWalrusId # EmptyId /\ entryWalrusId # UnknownId
                         THEN checkSealApprovalFromData(store, entryWalrusId)
                         ELSE FALSE
    IN  [id |-> <<"entry-", index>>, label |-> e.label, walrusId |-> entryWalrusId,
         sealApproved |-> sealApproved]

processedEntries(store, entries) ==
    [i \in 1..Len(entries) |-> processEntry(store, entries[i], i - 1)]

\* PasswordManager.tsx:205-296: what checkUserRecords leaves in userRecords and
\* passwords, given whether its single getOwnedObjects read succeeded. The held
\* state is replaced only when the read returns an object.
checkUserRecords(addr, ok) ==
    IF ok /\ Len(Owned(addr)) > 0
    THEN [userRecords |-> Owned(addr)[1].id,
          passwords   |-> processedEntries(localStorage, Owned(addr)[1].entries)]
    ELSE [userRecords |-> userRecords, passwords |-> passwords]

\* --------------------------------------------------- savePassword locals
IdleCall ==
    [pc |-> "idle", cap |-> Null, password |-> "p@ssw0rd", walrusId |-> EmptyId,
     maxRetries |-> DefaultMaxRetries, attempt |-> 0, rAttempt |-> 0,
     cur |-> Null, txVer |-> 0,
     log |-> <<>>,       \* what the execute call did, in order
     waits |-> <<>>,     \* its backoff delays
     rwaits |-> <<>>,    \* the backoff delays of the resolver call in progress
     vers |-> <<>>,      \* the object version each signed submission was built on
     seen |-> <<>>,      \* the record's entries when the last one was built
     lastErr |-> [kind |-> "none", text |-> NoText, attempt |-> 0],
     raised |-> [thrown |-> FALSE, text |-> NoText],
     result |-> [status |-> "none", digest |-> ""],
     created |-> "none",
     clean |-> TRUE,     \* no prompt was refused and no collaborator failed so far
     outcome |-> [type |-> "none", kind |-> "none", text |-> NoText]]

\* SealStatus.tsx:15-17: sealApproved is null, nothing is being requested
NoSeal == [status |-> "unknown", checkedFor |-> Null, pc |-> "idle", attempt |-> 0,
           cur |-> Null, txVer |-> 0, waits |-> <<>>, log |-> <<>>,
           effects |-> "none",    \* result.effects.status of an executed seal_approve
           result |-> [success |-> FALSE, error |-> NoText], requests |-> 0]

NoRetrieve == [busy |-> FALSE, walrusId |-> EmptyId, outcome |-> "none",
               approved |-> FALSE]

\* No function is being applied on its own.
NoProbe == [op |-> "none", done |-> FALSE, arg |-> <<>>, out |-> <<>>]

InExec(r) == r.pc \in {"resolve", "prompt", "land"}
Idle(r) == r.pc \in {"idle", "done"}

\* PasswordManager.tsx:33-53: the component is constructed with no held record
\* and an empty list; the wallet is connected to account A and the connect
\* effect has started checkUserRecords (setLoading(true) at 208), whose read is
\* pending. The ledger holds no record of A, or one left by an earlier session,
\* empty or with one entry, whose blob may have been stored by another browser.
Init ==
    /\ objs \in {<<>>,
                 <<[id |-> 1, owner |-> "A", version |-> 1, entries |-> <<>>]>>,
                 <<[id |-> 1, owner |-> "A", version |-> 2,
                    entries |-> <<[label |-> "ext", walrus_id |-> ForeignId]>>]>>}
    /\ nextId = 2
    /\ localStorage = <<>>
    /\ nextBlob = 0
    /\ account = "A"
    /\ userRecords = Null
    /\ passwords = <<>>
    /\ loading = TRUE
    /\ pendingCheck = TRUE
    /\ rt = NoRetrieve
    /\ rtReads = {}
    /\ sv = [c \in Calls |-> IdleCall]
    /\ nSaves = 0 /\ nExt = 0 /\ nSwitch = 0
    /\ probe = NoProbe
    /\ sealStatus = NoSeal

\* ---------------------------------------------- what the catch blocks show
isRejection(text) == includes(text, "User rejection") \/ includes(text, "UserRejectionError")

\* PasswordManager.tsx:434-445 (savePassword) and 335-346 (createUserRecords)
errorMessage(text) ==
    IF isRejection(text) THEN [type |-> "warning", kind |-> "cancelled", text |-> text]
    ELSE IF includes(text, "Insufficient funds")
         THEN [type |-> "error", kind |-> "insufficient", text |-> text]
         ELSE [type |-> "error", kind |-> "failed", text |-> text]

\* savePassword's catch + finally
saveCatch(r, text) == [r EXCEPT !.pc = "done", !.outcome = errorMessage(text)]

\* PasswordManager.tsx:134-140: the execute call starts its first attempt, which
\* starts with a call of getCurrentUserRecords
enterExec(r) ==
    [r EXCEPT !.pc = "resolve", !.attempt = 1, !.rAttempt = 1, !.rwaits = <<>>,
              !.log = <<"resolve">>]

\* PasswordManager.tsx:383: step 3 runs the creation phase when the handler's
\* userRecords is null
step3(r) == IF r.cap = Null THEN [r EXCEPT !.pc = "create"] ELSE enterExec(r)

\* ------------------------------------------------ connect effect, account
\* PasswordManager.tsx:48-53: checkUserRecords run by the effect on connection
ConnectCheck ==
    /\ pendingCheck
    /\ \E ok \in ReadOutcomes :
          LET got == checkUserRecords(account, ok)
          IN  /\ userRecords' = got.userRecords
              /\ passwords' = got.passwords
    /\ loading' = FALSE
    /\ pendingCheck' = FALSE
    /\ UNCHANGED <<objs, nextId, localStorage, nextBlob, account, rt, rtReads, sv,
                   nSaves, nExt, nSwitch, probe, sealStatus>>

\* The user selects another account in the wallet: the effect's dependency
\* wallet.account?.address changes and checkUserRecords starts (setLoading(true)).
SwitchAccount ==
    /\ nSwitch < MaxSwitches
    /\ ~pendingCheck /\ ~rt.busy /\ \A c \in Calls : Idle(sv[c])
    /\ account' = CHOOSE a \in Accounts : a # account
    /\ pendingCheck' = TRUE
    /\ loading' = TRUE
    /\ nSwitch' = nSwitch + 1
    /\ UNCHANGED <<objs, nextId, localStorage, nextBlob, userRecords, passwords, rt,
                   rtReads, sv, nSaves, nExt, probe, sealStatus>>

\* ------------------------------------------------------------ savePassword
\* PasswordForm.tsx:126-130: the Save control is disabled while loading.
\* PasswordManager.tsx:353-361: the handler of the current render holds that
\* render's userRecords.
SaveStart(c) ==
    /\ ~loading
    /\ Idle(sv[c])
    /\ nSaves < MaxSaves
    /\ \E pw \in Passwords :
          sv' = [sv EXCEPT ![c] = [IdleCall EXCEPT !.pc = "encrypt", !.cap = userRecords,
                                                   !.password = pw]]
    /\ loading' = TRUE
    /\ nSaves' = nSaves + 1
    /\ UNCHANGED <<objs, nextId, localStorage, nextBlob, account, userRecords, passwords,
                   pendingCheck, rt, rtReads, nExt, nSwitch, probe, sealStatus>>

\* A save that puts the blob without waiting for the outcome of the encryption.
SaveEncryptStoreUngated(c) ==
    LET r    == sv[c]
        seal == sealEncryptPassword(r.password, nextBlob + 1)
        put  == storeInWalrus(localStorage, seal.encryptedData, nextBlob + 1, TRUE)
    IN  /\ r.pc = "encrypt"
        /\ localStorage' = put.store
        /\ nextBlob' = nextBlob + 1
        /\ sv' = [sv EXCEPT ![c] =
                    IF seal.ok THEN step3([r EXCEPT !.walrusId = put.walrusId])
                    ELSE saveCatch([r EXCEPT !.clean = FALSE], EncryptFailedText)]
        /\ loading' = IF seal.ok THEN loading ELSE FALSE
        /\ UNCHANGED <<objs, nextId, account, userRecords, passwords, pendingCheck, rt,
                       rtReads, nSaves, nExt, nSwitch, probe, sealStatus>>

\* Step 1 (367-374) and step 2 (376-380, crypto.ts:74-107): encrypt, then store
\* under a newly generated walrus id; localStorage.setItem may throw.
SaveEncryptStore(c) ==
    LET r    == sv[c]
        seal == sealEncryptPassword(r.password, nextBlob + 1)
    IN  /\ r.pc = "encrypt"
        /\ IF ~seal.ok
           THEN /\ sv' = [sv EXCEPT ![c] = saveCatch([r EXCEPT !.clean = FALSE],
                                                      EncryptFailedText)]
                /\ loading' = FALSE
                /\ UNCHANGED <<localStorage, nextBlob>>
           ELSE \E quotaOk \in BOOLEAN :
                  LET put == storeInWalrus(localStorage, seal.encryptedData,
                                           nextBlob + 1, quotaOk)
                  IN
                  IF put.ok
                  THEN /\ localStorage' = put.store
                       /\ nextBlob' = nextBlob + 1
                       /\ sv' = [sv EXCEPT ![c] =
                                   step3([r EXCEPT !.walrusId = put.walrusId])]
                       /\ UNCHANGED loading
                  ELSE /\ sv' = [sv EXCEPT ![c] = saveCatch([r EXCEPT !.clean = FALSE],
                                                             StoreFailedText)]
                       /\ loading' = FALSE
                       /\ UNCHANGED <<localStorage, nextBlob>>
        /\ UNCHANGED <<objs, nextId, account, userRecords, passwords, pendingCheck, rt,
                       rtReads, nSaves, nExt, nSwitch, probe, sealStatus>>

\* ------------------------------------------------------ wallet and ledger
\* What wallet.signAndExecuteTransactionBlock does with a prompt: the user
\* approves, dismisses, or the submission fails for another reason.
PromptOutcomes ==
    {[kind |-> "approve", text |-> NoText]}
    \cup {[kind |-> "cancel", text |-> t] : t \in CancelTexts}
    \cup {[kind |-> "other", text |-> t] : t \in OtherTexts}

EffectsStatus == {"success", "failure"}

\* create_user_records takes no argument (PasswordManager.tsx:308-311): the
\* ledger makes a new object for the sender whatever the sender already owns.
\* Its place among the sender's objects in getOwnedObjects is the ledger's.
Created(front) ==
    LET o == [id |-> nextId, owner |-> account, version |-> 1, entries |-> <<>>]
    IN  IF front THEN <<o>> \o objs ELSE Append(objs, o)

\* save_entry(object, label, walrus_id) executed by the ledger
\* A save_entry that puts the new entry in front of the earlier ones.
LandedInFront(id, status, label, walrusId) ==
    [objs EXCEPT ![ObjIndex(id)] =
        [@ EXCEPT !.version = @ + 1,
                  !.entries = IF status = "success"
                              THEN <<[label |-> label, walrus_id |-> walrusId]>> \o @
                              ELSE @]]

Landed(id, status, label, walrusId) ==
    [objs EXCEPT ![ObjIndex(id)] =
        [@ EXCEPT !.version = @ + 1,
                  !.entries = IF status = "success"
                              THEN Append(@, [label |-> label, walrus_id |-> walrusId])
                              ELSE @]]

ExtEntries(o) == Len(SelectSeq(o.entries, LAMBDA e : e.label = "ext"))

\* Another client of the same owner mutates a record: it appends an entry (here
\* one without a walrus id) or only touches the object (seal_approve). It is
\* interleaved where it interferes: on the object of a transaction that was
\* built and has not reached the ledger yet.
ExternalMutation ==
    /\ nExt < MaxExternal
    /\ \E c \in Calls, kind \in {"touch", "append"} :
          LET i == ObjIndex(sv[c].cur)
          IN  /\ sv[c].pc = "land"
              /\ objs[i].version = sv[c].txVer
              /\ kind = "append" => ExtEntries(objs[i]) < MaxExtEntries
              /\ objs' = [objs EXCEPT ![i] =
                            [@ EXCEPT !.version = @ + 1,
                                      !.entries = IF kind = "append"
                                                  THEN Append(@, [label |-> "ext",
                                                                  walrus_id |-> EmptyId])
                                                  ELSE @]]
    /\ nExt' = nExt + 1
    /\ UNCHANGED <<nextId, localStorage, nextBlob, account, userRecords, passwords,
                   loading, pendingCheck, rt, rtReads, sv, nSaves, nSwitch, probe, sealStatus>>

\* ------------------------------------------------------ createUserRecords
\* PasswordManager.tsx:298-351, up to the nested checkUserRecords: the prompt,
\* the status test, the catch that shows the failure and the finally.
SaveCreate(c) ==
    LET r == sv[c]
    IN  /\ r.pc = "create"
        /\ \E o \in PromptOutcomes, st \in EffectsStatus :
              IF o.kind = "approve" /\ st = "success"
              THEN /\ Len(objs) < MaxObjects
                   /\ \E front \in BOOLEAN : objs' = Created(front)
                   /\ nextId' = nextId + 1
                   /\ sv' = [sv EXCEPT ![c] = [r EXCEPT !.pc = "create_check",
                                                        !.created = "success"]]
                   /\ loading' = TRUE
              ELSE LET text == IF o.kind = "approve" THEN {"Transaction failed"}
                               ELSE o.text
                   IN  /\ sv' = [sv EXCEPT ![c] =
                                   [r EXCEPT !.pc = "recheck", !.clean = FALSE,
                                             !.created = errorMessage(text).kind]]
                       /\ loading' = FALSE
                       /\ UNCHANGED <<objs, nextId>>
        /\ UNCHANGED <<localStorage, nextBlob, account, userRecords, passwords,
                       pendingCheck, rt, rtReads, nSaves, nExt, nSwitch, probe, sealStatus>>

\* PasswordManager.tsx:330-331 and 347-350: the checkUserRecords nested in
\* createUserRecords, then both finally blocks
SaveCreateCheck(c) ==
    LET r == sv[c]
    IN  /\ r.pc = "create_check"
        /\ \E ok \in ReadOutcomes :
              LET got == checkUserRecords(account, ok)
              IN  /\ userRecords' = got.userRecords
                  /\ passwords' = got.passwords
                  /\ sv' = [sv EXCEPT ![c] = [r EXCEPT !.pc = "recheck",
                                                       !.clean = r.clean /\ ok]]
        /\ loading' = FALSE
        /\ UNCHANGED <<objs, nextId, localStorage, nextBlob, account, pendingCheck, rt,
                       rtReads, nSaves, nExt, nSwitch, probe, sealStatus>>

\* PasswordManager.tsx:390-401: the second checkUserRecords, then the test of
\* the handler's own userRecords
SaveRecheck(c) ==
    LET r == sv[c]
    IN  /\ r.pc = "recheck"
        /\ \E ok \in ReadOutcomes :
              LET got == checkUserRecords(account, ok)
                  r2  == [r EXCEPT !.clean = r.clean /\ ok]
              IN  /\ userRecords' = got.userRecords
                  /\ passwords' = got.passwords
                  /\ sv' = [sv EXCEPT ![c] = IF r.cap = Null
                                             THEN saveCatch(r2, CreationFailedText)
                                             ELSE enterExec(r2)]
        /\ loading' = FALSE
        /\ UNCHANGED <<objs, nextId, localStorage, nextBlob, account, pendingCheck, rt,
                       rtReads, nSaves, nExt, nSwitch, probe, sealStatus>>

\* ------------------------------------------- executeTransactionWithRetry
\* A conflict test that also takes "Insufficient funds" for a stale version.
isVersionConflictOrFunds(text) ==
    \/ includes(text, "is not available for consumption")
    \/ includes(text, "current version")
    \/ includes(text, "Insufficient funds")

\* A conflict test that also takes a failed ledger read for a stale version.
isVersionConflictOrNetwork(text) ==
    \/ includes(text, "is not available for consumption")
    \/ includes(text, "current version")
    \/ includes(text, "fetch failed")

\* PasswordManager.tsx:166-167
isVersionConflict(text) ==
    includes(text, "is not available for consumption") \/ includes(text, "current version")

\* A retry test that looks at the attempt budget alone.
shouldRetryAny(text, attempt, maxRetries) == attempt < maxRetries

\* A retry test that does not look at the attempts left.
shouldRetryUnbounded(text, attempt, maxRetries) == isVersionConflict(text)

\* PasswordManager.tsx:169
shouldRetry(text, attempt, maxRetries) == isVersionConflict(text) /\ attempt < maxRetries

\* A backoff that does not grow with the attempt.
waitTimeFlat(attempt) == ConflictBackoffMs

\* A backoff that doubles with every attempt.
waitTimeDoubling(attempt) == 2 ^ (attempt - 1) * ConflictBackoffMs

\* PasswordManager.tsx:170
waitTime(attempt) == attempt * ConflictBackoffMs

\* PasswordManager.tsx:117
resolverWait(attempt) == attempt * ResolverBackoffMs

\* A next attempt that reuses the object reference of the previous one
\* instead of calling getCurrentUserRecords again.
nextAttemptNoResolve(r) ==
    [r EXCEPT !.pc = "prompt", !.attempt = r.attempt + 1,
              !.log = Append(r.log, "wait"),
              !.waits = Append(r.waits, waitTime(r.attempt))]

\* PasswordManager.tsx:173 and 134-140: after the backoff the loop continues with
\* the next attempt, which starts with a new call of getCurrentUserRecords
nextAttempt(r) ==
    [r EXCEPT !.pc = "resolve", !.attempt = r.attempt + 1, !.rAttempt = 1,
              !.rwaits = <<>>,
              !.log = r.log \o <<"wait", "resolve">>,
              !.waits = Append(r.waits, waitTime(r.attempt))]

\* A catch that retries whatever was thrown while attempts are left.
execCatchRetryAll(r, kind, text) ==
    LET r2 == [r EXCEPT !.lastErr = [kind |-> kind, text |-> text, attempt |-> r.attempt],
                        !.log = Append(r.log, kind),
                        !.clean = FALSE]
    IN  IF r.attempt < r.maxRetries
        THEN nextAttempt(r2)
        ELSE saveCatch([r2 EXCEPT !.raised = [thrown |-> TRUE, text |-> text]], text)

\* PasswordManager.tsx:162-178: the catch of one attempt; what it rethrows goes
\* to savePassword's catch (434-449)
execCatch(r, kind, text) ==
    LET r2 == [r EXCEPT !.lastErr = [kind |-> kind, text |-> text, attempt |-> r.attempt],
                        !.log = Append(r.log, kind),
                        !.clean = FALSE]
    IN  IF shouldRetry(text, r.attempt, r.maxRetries)
        THEN nextAttempt(r2)
        ELSE saveCatch([r2 EXCEPT !.raised = [thrown |-> TRUE, text |-> text]], text)

\* A catch that submits again after every error while attempts are left.
sealCatchRetryAll(s, kind, text) ==
    LET s2 == [s EXCEPT !.log = Append(s.log, kind)]
    IN  IF s.attempt < SealMaxRetries
        THEN [s2 EXCEPT !.pc = "resolve", !.attempt = s.attempt + 1,
                        !.waits = Append(s.waits, s.attempt * SealBackoffMs),
                        !.log = s2.log \o <<"wait", "resolve">>]
        ELSE [s2 EXCEPT !.pc = "done", !.result = [success |-> FALSE, error |-> text]]

\* sealProtocol.ts:131-146: the catch of one attempt
sealCatch(s, kind, text) ==
    LET s2 == [s EXCEPT !.log = Append(s.log, kind)]
    IN  IF includes(text, "is not available for consumption")
           /\ s.attempt < SealMaxRetries
        THEN [s2 EXCEPT !.pc = "resolve", !.attempt = s.attempt + 1,
                        !.waits = Append(s.waits, s.attempt * SealBackoffMs),
                        !.log = s2.log \o <<"wait", "resolve">>]
        ELSE [s2 EXCEPT !.pc = "done", !.result = [success |-> FALSE, error |-> text]]

\* PasswordManager.tsx:421
isSuccess(result) == result.status = "success" \/ result.digest # ""

\* A transaction built on the record the component holds, when it holds one.
txObjectCached(objectId, held) == IF held # Null THEN held ELSE objectId

\* PasswordManager.tsx:148 and 408-412, sealProtocol.ts:104-106:
\* tx.object(currentObject.objectId), the id the resolver has just returned;
\* the held record id is at hand (userRecords, userRecordsId) and not used
txObject(objectId, held) == objectId

\* PasswordManager.tsx:76-121, one getOwnedObjects query of getCurrentUserRecords
\* called at 140; null makes executeTransactionWithRetry throw at 141-143.
ExecQuery(c) ==
    LET r == sv[c]
    IN  /\ r.pc = "resolve"
        /\ \E ok \in ReadOutcomes :
              /\ sv' = [sv EXCEPT ![c] =
                    IF ok
                    THEN IF Len(Owned(account)) = 0
                         THEN execCatch(r, "absent", NoRecordsText)
                         ELSE [r EXCEPT !.pc = "prompt",
                                         !.cur = txObject(Owned(account)[1].id, r.cap)]
                    ELSE IF r.rAttempt = ResolverMaxRetries
                         THEN execCatch(r, "read", ReadErrorText)
                         ELSE [r EXCEPT !.rAttempt = r.rAttempt + 1,
                                         !.rwaits = Append(r.rwaits,
                                                           resolverWait(r.rAttempt))]]
        /\ loading' = IF sv'[c].pc = "done" THEN FALSE ELSE loading
        /\ UNCHANGED <<objs, nextId, localStorage, nextBlob, account, userRecords,
                       passwords, pendingCheck, rt, rtReads, nSaves, nExt, nSwitch, probe, sealStatus>>

\* A transaction that stays bound to the version of the call's first build.
buildVersionPinned(r) == IF r.vers # <<>> THEN r.vers[1] ELSE ObjOf(r.cur).version

\* PasswordManager.tsx:148 and 408-419: tx.object(objectId) names the object by id
\* alone, so the wallet binds the transaction to the version the object has
\* when it builds it.
buildVersion(r) == ObjOf(r.cur).version

\* A prompt step that removes the blob of the save when the submission ends
\* the save with a failure.
ExecPromptRollback(c) ==
    LET r  == sv[c]
        rs == [r EXCEPT !.log = Append(r.log, "submit")]
    IN  /\ r.pc = "prompt"
        /\ \E o \in PromptOutcomes :
              sv' = [sv EXCEPT ![c] =
                    IF o.kind = "approve"
                    THEN [rs EXCEPT !.pc = "land", !.txVer = buildVersion(r),
                                    !.vers = Append(r.vers, buildVersion(r)),
                                    !.seen = ObjOf(r.cur).entries]
                    ELSE execCatch(rs, o.kind, o.text)]
        /\ loading' = IF sv'[c].pc = "done" THEN FALSE ELSE loading
        /\ localStorage' = IF sv'[c].pc = "done"
                           THEN [k \in DOMAIN localStorage \ {getStorageKey(r.walrusId)}
                                    |-> localStorage[k]]
                           ELSE localStorage
        /\ UNCHANGED <<objs, nextId, nextBlob, account, userRecords,
                       passwords, pendingCheck, rt, rtReads, nSaves, nExt,
                       nSwitch, probe, sealStatus>>

\* PasswordManager.tsx:148-158: the mutation is built on the resolved object id
\* and handed to the wallet, which prompts the user
ExecPrompt(c) ==
    LET r  == sv[c]
        rs == [r EXCEPT !.log = Append(r.log, "submit")]
    IN  /\ r.pc = "prompt"
        /\ \E o \in PromptOutcomes :
              sv' = [sv EXCEPT ![c] =
                    IF o.kind = "approve"
                    THEN [rs EXCEPT !.pc = "land", !.txVer = buildVersion(r),
                                    !.vers = Append(r.vers, buildVersion(r)),
                                    !.seen = ObjOf(r.cur).entries]
                    ELSE execCatch(rs, o.kind, o.text)]
        /\ loading' = IF sv'[c].pc = "done" THEN FALSE ELSE loading
        /\ UNCHANGED <<objs, nextId, localStorage, nextBlob, account, userRecords,
                       passwords, pendingCheck, rt, rtReads, nSaves, nExt,
                       nSwitch, probe, sealStatus>>

\* An execute loop that goes on to its next attempt after a submission was
\* executed, while attempts are left.
returnResultKeepLooping(ra, res) ==
    IF ra.attempt < ra.maxRetries THEN nextAttempt(ra)
    ELSE IF isSuccess(res)
         THEN [ra EXCEPT !.pc = "refresh",
                         !.outcome = [type |-> "success", kind |-> "saved",
                                      text |-> NoText]]
    ELSE saveCatch(ra, StatusFailedText)

\* PasswordManager.tsx:160-161 and 421-433: the result of an executed submission
\* is returned out of the loop, and savePassword tests it
returnResult(ra, res) ==
    IF isSuccess(res)
    THEN [ra EXCEPT !.pc = "refresh",
                    !.outcome = [type |-> "success", kind |-> "saved",
                                 text |-> NoText]]
    ELSE saveCatch(ra, StatusFailedText)

\* The signed transaction reaches the ledger: it is rejected when the object
\* moved on since it was built, else it is executed and the result returned
\* (PasswordManager.tsx:160-161), which savePassword tests at 421-433.
ExecLand(c) ==
    LET r == sv[c]
    IN  /\ r.pc = "land"
        /\ IF ObjOf(r.cur).version # r.txVer
           THEN /\ \E t \in StaleTexts :
                      sv' = [sv EXCEPT ![c] =
                               execCatch(r, "stale", t)]
                /\ UNCHANGED objs
           ELSE \E st \in EffectsStatus :
                  LET res == [status |-> st, digest |-> "0xd1"]
                      ra  == [r EXCEPT !.result = res, !.log = Append(r.log, "accept"),
                                       !.clean = r.clean /\ st = "success"]
                  IN  /\ objs' = Landed(r.cur, st, "Mail", r.walrusId)
                      /\ sv' = [sv EXCEPT ![c] = returnResult(ra, res)]
        /\ loading' = IF sv'[c].pc = "done" THEN FALSE ELSE loading
        /\ UNCHANGED <<nextId, localStorage, nextBlob, account, userRecords, passwords,
                       pendingCheck, rt, rtReads, nSaves, nExt, nSwitch, probe, sealStatus>>

\* PasswordManager.tsx:428-430 and 446-449: the refresh after a reported success
SaveRefresh(c) ==
    LET r == sv[c]
    IN  /\ r.pc = "refresh"
        /\ \E ok \in ReadOutcomes :
              LET got == checkUserRecords(account, ok)
              IN  /\ userRecords' = got.userRecords
                  /\ passwords' = got.passwords
        /\ sv' = [sv EXCEPT ![c] = [r EXCEPT !.pc = "done"]]
        /\ loading' = FALSE
        /\ UNCHANGED <<objs, nextId, localStorage, nextBlob, account, pendingCheck, rt,
                       rtReads, nSaves, nExt, nSwitch, probe, sealStatus>>

\* --------------------------------------------------------- retrievePassword
\* A validity test that only rejects the missing walrus id.
isValidEntryTruthy(entry) == entry.walrusId # EmptyId

\* PasswordList.tsx:25
isValidEntry(entry) == entry.walrusId # EmptyId /\ entry.walrusId # UnknownId

\* PasswordList.tsx:88-91: the control of one listed entry
retrieveDisabled(entry) == loading \/ ~isValidEntry(entry)

\* PasswordList.tsx:99-108
buttonLabel(entry) ==
    IF loading THEN "spinner"
    ELSE IF ~isValidEntry(entry) THEN "Invalid" ELSE "Copy"

\* PasswordManager.tsx:452-456: the click on an enabled control starts the handler
RetrieveStart ==
    /\ ~rt.busy
    /\ \E i \in 1..Len(passwords) :
          /\ ~retrieveDisabled(passwords[i])
          /\ rt' = [busy |-> TRUE, walrusId |-> passwords[i].walrusId, outcome |-> "none",
                    approved |-> FALSE]
    /\ loading' = TRUE
    /\ UNCHANGED <<objs, nextId, localStorage, nextBlob, account, userRecords, passwords,
                   pendingCheck, rtReads, sv, nSaves, nExt, nSwitch, probe, sealStatus>>

\* A retrieve that verifies the approval again with a seal_approve
\* submission on the held record, which moves the record to a new version.
RetrieveFinishReverifying ==
    /\ rt.busy
    /\ LET got == retrieveFromWalrus(localStorage, rt.walrusId)
           dec == sealDecryptPassword(got.data)
       IN  rt' = [busy |-> FALSE, walrusId |-> EmptyId,
                  outcome |-> IF got.ok /\ dec.ok THEN "copied" ELSE "failed",
                  approved |-> got.ok /\ dec.ok /\ dec.approved]
    /\ objs' = [i \in 1..Len(objs) |->
                  IF objs[i].id = userRecords
                  THEN [objs[i] EXCEPT !.version = @ + 1] ELSE objs[i]]
    /\ rtReads' = rtReads \cup {rt.walrusId}
    /\ loading' = FALSE
    /\ UNCHANGED <<nextId, localStorage, nextBlob, account, userRecords, passwords,
                   pendingCheck, sv, nSaves, nExt, nSwitch, probe, sealStatus>>

\* PasswordManager.tsx:458-481: blob read, decryption, clipboard, message, finally
RetrieveFinish ==
    /\ rt.busy
    /\ LET got == retrieveFromWalrus(localStorage, rt.walrusId)
           dec == sealDecryptPassword(got.data)
       IN  rt' = [busy |-> FALSE, walrusId |-> EmptyId,
                  outcome |-> IF got.ok /\ dec.ok THEN "copied" ELSE "failed",
                  approved |-> got.ok /\ dec.ok /\ dec.approved]
    /\ rtReads' = rtReads \cup {rt.walrusId}
    /\ loading' = FALSE
    /\ UNCHANGED <<objs, nextId, localStorage, nextBlob, account, userRecords, passwords,
                   pendingCheck, sv, nSaves, nExt, nSwitch, probe, sealStatus>>

\* ------------------------------------------------------------------ system
Next ==
    \/ ConnectCheck
    \/ SwitchAccount
    \/ ExternalMutation
    \/ RetrieveStart
    \/ RetrieveFinish
    \/ \E c \in Calls : SaveStart(c)
    \/ \E c \in Calls : SaveEncryptStore(c)
    \/ \E c \in Calls : SaveCreate(c)
    \/ \E c \in Calls : SaveCreateCheck(c)
    \/ \E c \in Calls : SaveRecheck(c)
    \/ \E c \in Calls : ExecQuery(c)
    \/ \E c \in Calls : ExecPrompt(c)
    \/ \E c \in Calls : ExecLand(c)
    \/ \E c \in Calls : SaveRefresh(c)

Spec == Init /\ [][Next]_vars

\* ------------------------------------------ functions applied on their own
\* The second specification: the component sits idle and one function of the
\* code is applied to an input drawn from a bounded set.
MaxText == 2
Chars == {97, QUOTE, BACKSLASH, 233, 8364}     \* a  "  \  e-acute  euro sign
Texts(n) == UNION {[1..k -> Chars] : k \in 0..n}

TextItem(text) == [enc |-> "text", text |-> text]

\* PasswordManager.tsx:367-380 then 457-465: sealEncryptPassword, storeInWalrus,
\* and later retrieveFromWalrus, sealDecryptPassword on the walrus id that the
\* store returned
saveThenRetrieve(arg) ==
    LET sealed == sealEncryptText(arg.password, arg.website, 1)
        put    == storeInWalrus(arg.store, TextItem(sealed.text), 1, TRUE)
        got    == retrieveFromWalrus(put.store, put.walrusId)
        dec    == IF got.ok /\ got.data.enc = "text"
                  THEN sealDecryptText(got.data.text) ELSE ParseError
        saved  == sealed.ok /\ put.ok
    IN  [saved     |-> saved,
         retrieved |-> saved /\ got.ok /\ dec.ok,
         password  |-> IF saved THEN dec.password ELSE <<>>,
         website   |-> IF saved THEN dec.website ELSE Undefined]

\* a blob store that is empty, or holds another blob and a legacy item
OtherStores ==
    {<<>>,
     (getStorageKey(WalrusId(2)) :> TextItem(<<PAD>>))
        @@ (legacyStorageKey(WalrusId(1)) :> TextItem(<<PAD, PAD>>))}

RoundTripArgs ==
    {[password |-> p, website |-> w, store |-> st] :
        p \in Texts(MaxText) \ {<<>>},
        w \in {Undefined} \cup Texts(1),
        st \in OtherStores}

\* PasswordManager.tsx:233-266 on its own: the entries of a record and the
\* blob store they are listed against. What the store holds for a walrus id:
EnvelopeKinds == {"missing", "notBase64", "notJSON", "approved", "notApproved",
                  "legacyApproved"}
MaxEntries == 3
EntryLabels == <<"first", "second", "third", "fourth", "fifth">>
ListedIds == {WalrusId(1), WalrusId(2)}

\* the envelope sealEncryptPassword wrote, with the approved flag it froze
EnvelopeText(approved) ==
    btoa(JSONstringify([password |-> <<97>>, website |-> Undefined, sealId |-> 1,
                        approved |-> approved])).text

StoredUnder(kind, id) ==
    IF kind = "missing" THEN <<>>
    ELSE IF kind = "notBase64" THEN getStorageKey(id) :> TextItem(<<PAD, 0, 0, 0>>)
    ELSE IF kind = "notJSON" THEN getStorageKey(id) :> TextItem(btoa(<<97>>).text)
    ELSE IF kind = "approved" THEN getStorageKey(id) :> TextItem(EnvelopeText(TRUE))
    ELSE IF kind = "notApproved" THEN getStorageKey(id) :> TextItem(EnvelopeText(FALSE))
    ELSE legacyStorageKey(id) :> TextItem(EnvelopeText(TRUE))

StoreOf(kinds) == StoredUnder(kinds[WalrusId(1)], WalrusId(1))
                  @@ StoredUnder(kinds[WalrusId(2)], WalrusId(2))

EntriesOf(ids) == [i \in 1..Len(ids) |-> [label |-> EntryLabels[i], walrus_id |-> ids[i]]]

ListArgs ==
    {[entries |-> EntriesOf(ids), kinds |-> kinds] :
        ids \in UNION {[1..k -> ListedIds \cup {EmptyId}] : k \in 0..MaxEntries},
        kinds \in [ListedIds -> EnvelopeKinds]}

\* getCurrentUserRecords on its own, in its two copies: the component's
\* (PasswordManager.tsx:76-121) and the protocol module's (sealProtocol.ts:23-70).
\* The i-th getOwnedObjects query of a call throws ("fail"), answers with no
\* object ("zero"), with an object that lacks an id, version or digest
\* ("invalid"), or with an object ("object"); outcomes[i] says which.
ResolverCopies == {"component", "protocol"}
QueryOutcomes == {"fail", "zero", "invalid", "object"}
ProtocolBackoffMs == 1000  \* setTimeout(resolve, 1000)

\* the wait before the next query: attempt * 1500 in the component, 1000 in
\* the protocol module
backoff(copy, attempt) ==
    IF copy = "component" THEN resolverWait(attempt) ELSE ProtocolBackoffMs

\* a loop body that takes an empty answer for a failed query
queryStepZeroFails(o, attempt, maxRetries) ==
    IF o = "object" THEN "identity"
    ELSE IF attempt = maxRetries THEN "raise"
    ELSE "retry"

\* the loop body: return null, return the identity, or the catch block, which
\* rethrows on the last attempt and waits otherwise
queryStep(o, attempt, maxRetries) ==
    IF o = "zero" THEN "absent"
    ELSE IF o = "object" THEN "identity"
    ELSE IF attempt = maxRetries THEN "raise"
    ELSE "retry"

\* Result: how the call ended, the query whose answer or error it passed on,
\* the number of queries it made and the waits between them.
RECURSIVE getCurrentUserRecords(_, _, _, _)
getCurrentUserRecords(copy, outcomes, attempt, waits) ==
    LET step == queryStep(outcomes[attempt], attempt, ResolverMaxRetries)
    IN  IF attempt > ResolverMaxRetries
        THEN [result |-> "absent", from |-> 0, queries |-> attempt - 1, waits |-> waits]
        ELSE IF step = "retry"
             THEN getCurrentUserRecords(copy, outcomes, attempt + 1,
                                        Append(waits, backoff(copy, attempt)))
        ELSE [result |-> step, from |-> attempt, queries |-> attempt, waits |-> waits]

ResolveArgs ==
    {[copy |-> c, outcomes |-> o] :
        c \in ResolverCopies, o \in [1..ResolverMaxRetries -> QueryOutcomes]}

\* sealProtocol.ts:242-288 checkSealApproval on its own. What it is called in:
\* whether client.getObject throws, the object the ledger holds under the id
\* (its owner, and its version, which a seal_approve transaction has moved on
\* or not), the wallet's account address, and the blob store with the approved
\* flag of the envelope in it.
NoObject == [owner |-> [kind |-> "none", addr |-> ""], version |-> 0]
NoAddress == ""
ObjectOwners ==
    {[kind |-> "AddressOwner", addr |-> a] : a \in Accounts}
    \cup {[kind |-> "ObjectOwner", addr |-> a] : a \in Accounts}
    \cup {[kind |-> "Shared", addr |-> ""], [kind |-> "Immutable", addr |-> ""]}

ApprovalArgs ==
    {[fetch |-> f, object |-> o, address |-> a, store |-> st] :
        f \in {"error", "answered"},
        o \in {NoObject} \cup {[owner |-> ow, version |-> v] :
                                  ow \in ObjectOwners, v \in {1, 2}},
        a \in Accounts \cup {NoAddress},
        st \in {StoredUnder(k, WalrusId(1)) : k \in {"approved", "notApproved"}}}

\* a check that reads a failed fetch as an approval
checkSealApprovalFailOpen(w) ==
    IF w.fetch = "error" THEN TRUE
    ELSE IF w.object = NoObject THEN FALSE
    ELSE IF w.address = NoAddress THEN FALSE
    ELSE w.object.owner.kind = "AddressOwner" /\ w.object.owner.addr = w.address

\* the catch at 284-287, the tests at 260-271 and isOwner at 274-283
checkSealApproval(w) ==
    IF w.fetch = "error" THEN FALSE
    ELSE IF w.object = NoObject THEN FALSE
    ELSE IF w.address = NoAddress THEN FALSE
    ELSE w.object.owner.kind = "AddressOwner" /\ w.object.owner.addr = w.address

\* executeTransactionWithRetry on its own (PasswordManager.tsx:126-180), for a
\* maxRetries of 1..MaxAttempts. What happens in attempt i: the first
\* arg.stale attempts are rejected by the ledger with a version conflict, the
\* one after them ends as arg.then says: getCurrentUserRecords throws ("read")
\* or returns null ("absent"), the user dismisses the prompt ("cancel"), the
\* submission fails otherwise ("other") or is executed ("result").
ExecEndings == {"read", "absent", "cancel", "other", "result"}

thrownIn(arg, attempt) ==
    IF attempt <= arg.stale THEN arg.staleText
    ELSE IF arg.then = "read" THEN ReadErrorText
    ELSE IF arg.then = "absent" THEN NoRecordsText
    ELSE IF arg.then = "cancel" THEN {"User rejection"}
    ELSE IF arg.then = "other" THEN {"Insufficient funds"}
    ELSE NoText

\* Result: how the call ended ("result": line 161; "raise": lines 131 and 177;
\* "undefined": the end of the function body after the loop), what it threw,
\* the attempts it made and the waits between them.
RECURSIVE executeTransactionWithRetry(_, _, _)
executeTransactionWithRetry(arg, attempt, waits) ==
    IF ~arg.wallet
    THEN [ended |-> "raise", text |-> {"Wallet not connected"}, attempts |-> 0,
          waits |-> waits]
    ELSE IF attempt > arg.maxRetries
    THEN [ended |-> "undefined", text |-> NoText, attempts |-> attempt - 1,
          waits |-> waits]
    ELSE IF attempt > arg.stale /\ arg.then = "result"
    THEN [ended |-> "result", text |-> NoText, attempts |-> attempt, waits |-> waits]
    ELSE IF shouldRetry(thrownIn(arg, attempt), attempt, arg.maxRetries)
    THEN executeTransactionWithRetry(arg, attempt + 1,
                                     Append(waits, waitTime(attempt)))
    ELSE [ended |-> "raise", text |-> thrownIn(arg, attempt), attempts |-> attempt,
          waits |-> waits]

ExecuteArgs ==
    {[wallet |-> w, maxRetries |-> m, stale |-> k, staleText |-> t, then |-> e] :
        w \in BOOLEAN, m \in 1..MaxAttempts, k \in 0..MaxAttempts,
        t \in StaleTexts, e \in ExecEndings}

\* The blob store on its own (crypto.ts:74-148): storeInWalrus is called for
\* each item of arg.puts in turn, starting with an empty localStorage; an item
\* is the data to store and whether setItem has the quota for it. Result: the
\* walrus ids returned (EmptyId where the call threw), the store at the end,
\* and whether every call left the items it found as they were.
PutData == {TextItem(EnvelopeText(TRUE)), TextItem(EnvelopeText(FALSE))}

RECURSIVE storeAll(_, _, _)
storeAll(puts, n, acc) ==
    IF n > Len(puts) THEN acc
    ELSE LET put == storeInWalrus(acc.store, puts[n].data, n, puts[n].quotaOk)
         IN  storeAll(puts, n + 1,
                      [ids   |-> Append(acc.ids, put.walrusId),
                       store |-> put.store,
                       kept  |-> /\ acc.kept
                                 /\ \A k \in DOMAIN acc.store :
                                       /\ k \in DOMAIN put.store
                                       /\ put.store[k] = acc.store[k]])

PutArgs ==
    UNION {[1..k -> [data : PutData, quotaOk : BOOLEAN]] : k \in 1..MaxPuts}

\* Addresses to ask the store for: the ids storeInWalrus generates, issued or
\* not, the same with the text 'storage_' in front, the same without their
\* 'walrus_', the empty string and 'unknown'.
Addresses ==
    {WalrusId(n) : n \in 1..(MaxPuts + 1)}
    \cup {<<"storage_">> \o WalrusId(n) : n \in 1..(MaxPuts + 1)}
    \cup {Tail(WalrusId(n)) : n \in 1..(MaxPuts + 1)}
    \cup {EmptyId, UnknownId}

GetArgs == {[puts |-> ps, address |-> a] : ps \in PutArgs, a \in Addresses}

NoPuts == [ids |-> <<>>, store |-> <<>>, kept |-> TRUE]

\* The catch blocks of the two retry loops and the waits of the two resolver
\* copies, on their own: what each does with an error thrown in an attempt
\* that is not the last of either loop.
ErrorTexts == StaleTexts \cup CancelTexts \cup OtherTexts \cup {ReadErrorText, NoRecordsText}

ClassifyArgs ==
    {[text |-> t, attempt |-> a] : t \in ErrorTexts, a \in 1..(SealMaxRetries - 1)}

classify(arg) ==
    [executor |-> execCatch([IdleCall EXCEPT !.pc = "land", !.attempt = arg.attempt],
                            "thrown", arg.text).pc = "resolve",
     approval |-> sealCatch([NoSeal EXCEPT !.pc = "land", !.attempt = arg.attempt],
                            "thrown", arg.text).pc = "resolve",
     componentWait |-> backoff("component", arg.attempt),
     protocolWait  |-> backoff("protocol", arg.attempt)]

\* One execute call with the ledger reads it makes (PasswordManager.tsx:126-180
\* calling 76-121 at line 140): arg.script says for each attempt how many
\* getOwnedObjects queries of its resolver call fail before one answers, and
\* what follows: an empty answer ("zero"), or an object and a submission that
\* the ledger rejects as stale, the user cancels, or the wallet executes.
\* Result: how the call ended, in which attempt, the queries and submissions
\* it made in total, the attempt whose resolver call failed on all its reads
\* (0 if none) and the submissions made after that.
MaxBudget == 3
CountingThens == {"zero", "stale", "cancel", "result"}

readsOf(step) ==
    [i \in 1..ResolverMaxRetries |->
        IF i <= step.fails THEN "fail"
        ELSE IF step.then = "zero" THEN "zero" ELSE "object"]

submissionError(step) ==
    IF step.then = "stale" THEN {"is not available for consumption"}
    ELSE {"User rejection"}

RECURSIVE executeCounting(_, _, _)
executeCounting(arg, attempt, acc) ==
    IF attempt > arg.maxRetries
    THEN [acc EXCEPT !.ended = "undefined", !.attempts = attempt - 1]
    ELSE
    LET step     == arg.script[attempt]
        resolved == getCurrentUserRecords("component", readsOf(step), 1, <<>>)
        read     == [acc EXCEPT !.attempts = attempt,
                                !.reads = @ + resolved.queries,
                                !.exhausted = IF resolved.result = "raise" /\ @ = 0
                                              THEN attempt ELSE @]
        sent     == [read EXCEPT !.submissions = @ + 1,
                                 !.late = IF read.exhausted # 0 THEN @ + 1 ELSE @]
        thrown   == IF resolved.result = "raise" THEN ReadErrorText
                    ELSE IF resolved.result = "absent" THEN NoRecordsText
                    ELSE submissionError(step)
        after    == IF resolved.result = "identity" THEN sent ELSE read
    IN  IF resolved.result = "identity" /\ step.then = "result"
        THEN [sent EXCEPT !.ended = "result"]
        ELSE IF shouldRetry(thrown, attempt, arg.maxRetries)
        THEN executeCounting(arg, attempt + 1, after)
        ELSE [after EXCEPT !.ended = "raise", !.text = thrown]

NoCounts ==
    [ended |-> "none", text |-> NoText, attempts |-> 0, reads |-> 0,
     submissions |-> 0, exhausted |-> 0, late |-> 0]

CountingArgs(m) ==
    {[maxRetries |-> m, script |-> s] :
        s \in [1..m -> [fails : 0..ResolverMaxRetries, then : CountingThens]]}

ProbeInputs ==
    {[op |-> "roundTrip", done |-> FALSE, arg |-> a, out |-> <<>>] : a \in RoundTripArgs}
    \cup {[op |-> "list", done |-> FALSE, arg |-> a, out |-> <<>>] : a \in ListArgs}
    \cup {[op |-> "resolve", done |-> FALSE, arg |-> a, out |-> <<>>] : a \in ResolveArgs}
    \cup {[op |-> "approval", done |-> FALSE, arg |-> a, out |-> <<>>] : a \in ApprovalArgs}
    \cup {[op |-> "execute", done |-> FALSE, arg |-> a, out |-> <<>>] : a \in ExecuteArgs}
    \cup {[op |-> "put", done |-> FALSE, arg |-> a, out |-> <<>>] : a \in PutArgs}
    \cup {[op |-> "get", done |-> FALSE, arg |-> a, out |-> <<>>] : a \in GetArgs}
    \cup {[op |-> "classify", done |-> FALSE, arg |-> a, out |-> <<>>] : a \in ClassifyArgs}

mainVars == <<objs, nextId, localStorage, nextBlob, account, userRecords, passwords,
              loading, pendingCheck, rt, rtReads, sv, nSaves, nExt, nSwitch, sealStatus>>

ProbeInit ==
    /\ objs = <<>>
    /\ nextId = 2
    /\ localStorage = <<>>
    /\ nextBlob = 0
    /\ account = "A"
    /\ userRecords = Null
    /\ passwords = <<>>
    /\ loading = FALSE
    /\ pendingCheck = FALSE
    /\ rt = NoRetrieve
    /\ rtReads = {}
    /\ sv = [c \in Calls |-> IdleCall]
    /\ nSaves = 0 /\ nExt = 0 /\ nSwitch = 0
    /\ \/ probe \in ProbeInputs
       \/ \E m \in 1..MaxBudget : \E a \in CountingArgs(m) :
             probe = [op |-> "count", done |-> FALSE, arg |-> a, out |-> <<>>]
    /\ sealStatus = NoSeal

ApplyRoundTrip ==
    /\ probe.op = "roundTrip" /\ ~probe.done
    /\ probe' = [probe EXCEPT !.done = TRUE, !.out = saveThenRetrieve(probe.arg)]
    /\ UNCHANGED mainVars

ApplyList ==
    /\ probe.op = "list" /\ ~probe.done
    /\ probe' = [probe EXCEPT !.done = TRUE,
                               !.out = processedEntries(StoreOf(probe.arg.kinds),
                                                        probe.arg.entries)]
    /\ UNCHANGED mainVars

ApplyResolve ==
    /\ probe.op = "resolve" /\ ~probe.done
    /\ probe' = [probe EXCEPT !.done = TRUE,
                               !.out = getCurrentUserRecords(probe.arg.copy,
                                                             probe.arg.outcomes, 1, <<>>)]
    /\ UNCHANGED mainVars

ApplyApproval ==
    /\ probe.op = "approval" /\ ~probe.done
    /\ probe' = [probe EXCEPT !.done = TRUE, !.out = checkSealApproval(probe.arg)]
    /\ UNCHANGED mainVars

ApplyExecute ==
    /\ probe.op = "execute" /\ ~probe.done
    /\ probe' = [probe EXCEPT !.done = TRUE,
                               !.out = executeTransactionWithRetry(probe.arg, 1, <<>>)]
    /\ UNCHANGED mainVars

ApplyPut ==
    /\ probe.op = "put" /\ ~probe.done
    /\ probe' = [probe EXCEPT !.done = TRUE, !.out = storeAll(probe.arg, 1, NoPuts)]
    /\ UNCHANGED mainVars

ApplyGet ==
    /\ probe.op = "get" /\ ~probe.done
    /\ probe' = [probe EXCEPT
                   !.done = TRUE,
                   !.out = retrieveFromWalrus(storeAll(probe.arg.puts, 1, NoPuts).store,
                                              probe.arg.address)]
    /\ UNCHANGED mainVars

ApplyClassify ==
    /\ probe.op = "classify" /\ ~probe.done
    /\ probe' = [probe EXCEPT !.done = TRUE, !.out = classify(probe.arg)]
    /\ UNCHANGED mainVars

ApplyCounting ==
    /\ probe.op = "count" /\ ~probe.done
    /\ probe' = [probe EXCEPT !.done = TRUE,
                               !.out = executeCounting(probe.arg, 1, NoCounts)]
    /\ UNCHANGED mainVars

ProbeNext ==
    \/ ApplyRoundTrip
    \/ ApplyList
    \/ ApplyResolve
    \/ ApplyApproval
    \/ ApplyExecute
    \/ ApplyPut
    \/ ApplyGet
    \/ ApplyClassify
    \/ ApplyCounting

SpecProbe == ProbeInit /\ [][ProbeNext]_vars

\* ------------------------------------------------------------ two windows
\* The third specification: the application is open in two windows of one
\* browser for the same account. They share the ledger and, being of one
\* origin, localStorage; each has its own component state. Both have loaded
\* the owner's record. The React state variables are those of window 1; of the
\* other window only its save is followed.
Windows == {1, 2}
OtherWindows == Windows \ Calls

TabsInit ==
    /\ objs \in {<<[id |-> 1, owner |-> "A", version |-> 1, entries |-> <<>>]>>,
                 <<[id |-> 1, owner |-> "A", version |-> 2,
                    entries |-> <<[label |-> "ext", walrus_id |-> EmptyId]>>]>>}
    /\ nextId = 2
    /\ localStorage = <<>>
    /\ nextBlob = 0
    /\ account = "A"
    /\ userRecords = 1
    /\ passwords = processedEntries(localStorage, objs[1].entries)
    /\ loading = FALSE
    /\ pendingCheck = FALSE
    /\ rt = NoRetrieve
    /\ rtReads = {}
    /\ sv = [c \in Windows |-> IdleCall]
    /\ nSaves = 0 /\ nExt = 0 /\ nSwitch = 0
    /\ probe = NoProbe
    /\ sealStatus = NoSeal

\* what a save in another window leaves alone: this window's component state
thisWindow == <<account, userRecords, passwords, loading, pendingCheck, rt, rtReads,
                nSaves, nExt, nSwitch, probe, sealStatus>>

\* PasswordManager.tsx:353-361 in the other window, whose userRecords holds the
\* record it has loaded
OtherStart(c) ==
    /\ sv[c].pc = "idle"
    /\ Len(Owned(account)) > 0
    /\ \E pw \in Passwords :
          sv' = [sv EXCEPT ![c] = [IdleCall EXCEPT !.pc = "encrypt",
                                                   !.cap = Owned(account)[1].id,
                                                   !.password = pw]]
    /\ UNCHANGED <<objs, nextId, localStorage, nextBlob>>
    /\ UNCHANGED thisWindow

\* steps 1 and 2 (367-380) in the other window
OtherEncryptStore(c) ==
    LET r    == sv[c]
        seal == sealEncryptPassword(r.password, nextBlob + 1)
    IN  /\ r.pc = "encrypt"
        /\ IF ~seal.ok
           THEN /\ sv' = [sv EXCEPT ![c] = saveCatch([r EXCEPT !.clean = FALSE],
                                                      EncryptFailedText)]
                /\ UNCHANGED <<localStorage, nextBlob>>
           ELSE \E quotaOk \in BOOLEAN :
                  LET put == storeInWalrus(localStorage, seal.encryptedData,
                                           nextBlob + 1, quotaOk)
                  IN
                  IF put.ok
                  THEN /\ localStorage' = put.store
                       /\ nextBlob' = nextBlob + 1
                       /\ sv' = [sv EXCEPT ![c] =
                                   step3([r EXCEPT !.walrusId = put.walrusId])]
                  ELSE /\ sv' = [sv EXCEPT ![c] = saveCatch([r EXCEPT !.clean = FALSE],
                                                             StoreFailedText)]
                       /\ UNCHANGED <<localStorage, nextBlob>>
        /\ UNCHANGED <<objs, nextId>>
        /\ UNCHANGED thisWindow

\* getCurrentUserRecords (76-121) called at 140 in the other window
OtherQuery(c) ==
    LET r == sv[c]
    IN  /\ r.pc = "resolve"
        /\ \E ok \in ReadOutcomes :
              /\ sv' = [sv EXCEPT ![c] =
                    IF ok
                    THEN IF Len(Owned(account)) = 0
                         THEN execCatch(r, "absent", NoRecordsText)
                         ELSE [r EXCEPT !.pc = "prompt",
                                         !.cur = txObject(Owned(account)[1].id, r.cap)]
                    ELSE IF r.rAttempt = ResolverMaxRetries
                         THEN execCatch(r, "read", ReadErrorText)
                         ELSE [r EXCEPT !.rAttempt = r.rAttempt + 1,
                                         !.rwaits = Append(r.rwaits,
                                                           resolverWait(r.rAttempt))]]
        /\ UNCHANGED <<objs, nextId, localStorage, nextBlob>>
        /\ UNCHANGED thisWindow

\* 148-158 in the other window
OtherPrompt(c) ==
    LET r  == sv[c]
        rs == [r EXCEPT !.log = Append(r.log, "submit")]
    IN  /\ r.pc = "prompt"
        /\ \E o \in PromptOutcomes :
              sv' = [sv EXCEPT ![c] =
                    IF o.kind = "approve"
                    THEN [rs EXCEPT !.pc = "land", !.txVer = buildVersion(r),
                                    !.vers = Append(r.vers, buildVersion(r)),
                                    !.seen = ObjOf(r.cur).entries]
                    ELSE execCatch(rs, o.kind, o.text)]
        /\ UNCHANGED <<objs, nextId, localStorage, nextBlob>>
        /\ UNCHANGED thisWindow

\* the other window's signed transaction reaches the ledger (152-178, 421-433)
OtherLand(c) ==
    LET r == sv[c]
    IN  /\ r.pc = "land"
        /\ IF ObjOf(r.cur).version # r.txVer
           THEN /\ \E t \in StaleTexts :
                      sv' = [sv EXCEPT ![c] = execCatch(r, "stale", t)]
                /\ UNCHANGED objs
           ELSE \E st \in EffectsStatus :
                  LET res == [status |-> st, digest |-> "0xd1"]
                      ra  == [r EXCEPT !.result = res, !.log = Append(r.log, "accept"),
                                       !.clean = r.clean /\ st = "success"]
                  IN  /\ objs' = Landed(r.cur, st, "Mail", r.walrusId)
                      /\ sv' = [sv EXCEPT ![c] = returnResult(ra, res)]
        /\ UNCHANGED <<nextId, localStorage, nextBlob>>
        /\ UNCHANGED thisWindow

\* 423-430 and 446-449 in the other window: its refresh sets its own state
OtherRefresh(c) ==
    /\ sv[c].pc = "refresh"
    /\ sv' = [sv EXCEPT ![c] = [sv[c] EXCEPT !.pc = "done"]]
    /\ UNCHANGED <<objs, nextId, localStorage, nextBlob>>
    /\ UNCHANGED thisWindow

\* each window makes one save
FirstSave(c) == sv[c].pc = "idle" /\ SaveStart(c)

TabsNext ==
    \/ \E c \in Calls : FirstSave(c)
    \/ \E c \in Calls : SaveEncryptStore(c)
    \/ \E c \in Calls : ExecQuery(c)
    \/ \E c \in Calls : ExecPrompt(c)
    \/ \E c \in Calls : ExecLand(c)
    \/ \E c \in Calls : SaveRefresh(c)
    \/ \E c \in OtherWindows : OtherStart(c)
    \/ \E c \in OtherWindows : OtherEncryptStore(c)
    \/ \E c \in OtherWindows : OtherQuery(c)
    \/ \E c \in OtherWindows : OtherPrompt(c)
    \/ \E c \in OtherWindows : OtherLand(c)
    \/ \E c \in OtherWindows : OtherRefresh(c)

SpecTabs == TabsInit /\ [][TabsNext]_vars

\* ------------------------------------------- SealStatus and seal_approve
\* The fourth specification: the component with its SealStatus panel. Account
\* A has loaded its record, which lists two passwords saved earlier: the
\* envelope of the first was written with approved: true, that of the second
\* with approved: false. Account B owns a record too. The wallet may change to
\* B, whose list may fail and leave A's record and entries held
\* (PasswordManager.tsx:288-291).
SealInit ==
    /\ objs = <<[id |-> 1, owner |-> "A", version |-> 3,
                 entries |-> <<[label |-> "first", walrus_id |-> WalrusId(1)],
                               [label |-> "second", walrus_id |-> WalrusId(2)]>>],
                [id |-> 2, owner |-> "B", version |-> 1, entries |-> <<>>]>>
    /\ nextId = 3
    /\ localStorage = StoredUnder("approved", WalrusId(1))
                        @@ StoredUnder("notApproved", WalrusId(2))
    /\ nextBlob = 2
    /\ account = "A"
    /\ userRecords = 1
    /\ passwords = processedEntries(localStorage, objs[1].entries)
    /\ loading = FALSE
    /\ pendingCheck = FALSE
    /\ rt = NoRetrieve
    /\ rtReads = {}
    /\ sv = [c \in Calls |-> IdleCall]
    /\ nSaves = 0 /\ nExt = 0 /\ nSwitch = 0
    /\ probe = NoProbe
    /\ sealStatus = NoSeal

sealFrame == <<nextId, localStorage, nextBlob, account, userRecords, passwords, loading,
               pendingCheck, rt, rtReads, sv, nSaves, nExt, nSwitch, probe>>

\* SealStatus.tsx:19-37: the effect runs checkApprovalStatus when the held
\* record id changes; a throw of the ledger read counts as not approved
SealCheck ==
    /\ userRecords # Null
    /\ sealStatus.checkedFor # userRecords
    /\ \E fetch \in {"error", "answered"} :
          LET o == ObjOf(userRecords)
              w == [fetch |-> fetch,
                    object |-> [owner |-> [kind |-> "AddressOwner", addr |-> o.owner],
                                version |-> o.version],
                    address |-> account, store |-> localStorage]
          IN  sealStatus' = [sealStatus EXCEPT
                               !.checkedFor = userRecords,
                               !.status = IF checkSealApproval(w) THEN "approved"
                                          ELSE "notApproved"]
    /\ UNCHANGED <<objs, sealFrame>>

\* SealStatus.tsx:39-43 and 88-92, sealProtocol.ts:81-88: the button is there
\* while sealApproved is false and enabled while nothing is being requested
\* (SealStatus.tsx); requestSealApproval returns at once when the wallet has
\* no account or cannot sign (sealProtocol.ts:81-83), else starts attempt 1
SealRequest ==
    /\ userRecords # Null
    /\ sealStatus.status = "notApproved"
    /\ sealStatus.pc \in {"idle", "done"}
    /\ \E connected \in BOOLEAN :
          sealStatus' =
             IF connected
             THEN [sealStatus EXCEPT
                     !.pc = "resolve", !.attempt = 1, !.cur = Null, !.txVer = 0,
                     !.waits = <<>>, !.log = <<"resolve">>, !.effects = "none",
                     !.result = [success |-> FALSE, error |-> NoText],
                     !.requests = @ + 1]
             ELSE [sealStatus EXCEPT
                     !.pc = "done", !.attempt = 0, !.cur = Null, !.txVer = 0,
                     !.waits = <<>>, !.log = <<>>, !.effects = "none",
                     !.result = [success |-> FALSE, error |-> {"Wallet not connected"}],
                     !.requests = @ + 1]
    /\ UNCHANGED <<objs, sealFrame>>

\* sealProtocol.ts:94-97: getCurrentUserRecords(client, wallet.account.address);
\* null ends the request, a throw goes to the catch
SealQuery ==
    /\ sealStatus.pc = "resolve"
    /\ \E ok \in ReadOutcomes :
          sealStatus' =
             IF ~ok THEN sealCatch(sealStatus, "read", ReadErrorText)
             ELSE IF Len(Owned(account)) = 0
                  THEN [sealStatus EXCEPT
                          !.pc = "done", !.log = Append(@, "absent"),
                          !.result = [success |-> FALSE,
                                      error |-> {"UserRecords not found"}]]
             ELSE [sealStatus EXCEPT
                     !.pc = "prompt",
                     !.cur = txObject(Owned(account)[1].id, userRecords)]
    /\ UNCHANGED <<objs, sealFrame>>

\* sealProtocol.ts:99-116: seal_approve is built on the resolved object and
\* handed to the wallet
SealPrompt ==
    /\ sealStatus.pc = "prompt"
    /\ \E o \in PromptOutcomes :
          LET s == [sealStatus EXCEPT !.log = Append(@, "submit")]
          IN  sealStatus' =
                 IF o.kind = "approve"
                 THEN [s EXCEPT !.pc = "land", !.txVer = ObjOf(s.cur).version]
                 ELSE sealCatch(s, o.kind, o.text)
    /\ UNCHANGED <<objs, sealFrame>>

\* An approval that, once executed, marks the stored envelopes as approved.
SealLandStamping ==
    /\ sealStatus.pc = "land"
    /\ ObjOf(sealStatus.cur).version = sealStatus.txVer
    /\ objs' = [objs EXCEPT ![ObjIndex(sealStatus.cur)].version = @ + 1]
    /\ localStorage' = [k \in DOMAIN localStorage |-> TextItem(EnvelopeText(TRUE))]
    /\ sealStatus' = [sealStatus EXCEPT
                        !.pc = "done", !.log = Append(@, "accept"),
                        !.status = "approved", !.effects = "success",
                        !.result = [success |-> TRUE, error |-> NoText]]
    /\ UNCHANGED <<nextId, nextBlob, account, userRecords, passwords, loading,
                   pendingCheck, rt, rtReads, sv, nSaves, nExt, nSwitch, probe>>

\* The signed seal_approve reaches the ledger: rejected when the object moved
\* on since it was built, else executed. sealProtocol.ts:118-129: success is
\* the effects status; SealStatus.tsx:44-47 shows it.
SealLand ==
    /\ sealStatus.pc = "land"
    /\ IF ObjOf(sealStatus.cur).version # sealStatus.txVer
       THEN /\ \E t \in StaleTexts : sealStatus' = sealCatch(sealStatus, "stale", t)
            /\ UNCHANGED objs
       ELSE \E st \in EffectsStatus :
              /\ objs' = [objs EXCEPT ![ObjIndex(sealStatus.cur)].version = @ + 1]
              /\ sealStatus' = [sealStatus EXCEPT
                                  !.pc = "done", !.log = Append(@, "accept"),
                                  !.effects = st,
                                  !.status = IF st = "success" THEN "approved" ELSE @,
                                  !.result = [success |-> st = "success",
                                              error |-> NoText]]
    /\ UNCHANGED sealFrame

\* Another client of the owner mutates the record that a signed seal_approve
\* was built on before it reaches the ledger; as often as the request has
\* attempts.
SealInterference ==
    /\ nExt < SealMaxRetries
    /\ \A c \in Calls : sv[c].pc = "idle"
    /\ sealStatus.pc = "land"
    /\ ObjOf(sealStatus.cur).version = sealStatus.txVer
    /\ objs' = [objs EXCEPT ![ObjIndex(sealStatus.cur)].version = @ + 1]
    /\ nExt' = nExt + 1
    /\ UNCHANGED <<nextId, localStorage, nextBlob, account, userRecords, passwords,
                   loading, pendingCheck, rt, rtReads, sv, nSaves, nSwitch, probe,
                   sealStatus>>

\* one account change, one approval request and one retrieve in a run
FirstSwitch == nSwitch = 0 /\ SwitchAccount
FirstRequest == sealStatus.requests = 0 /\ SealRequest
FirstRetrieve == rt.outcome = "none" /\ RetrieveStart

SealNext ==
    \/ ConnectCheck
    \/ FirstSwitch
    \/ SealCheck
    \/ FirstRequest
    \/ SealQuery
    \/ SealPrompt
    \/ SealLand
    \/ SealInterference
    \/ FirstRetrieve
    \/ RetrieveFinish
    \/ \E c \in Calls : FirstSave(c)
    \/ \E c \in Calls : SaveEncryptStore(c)
    \/ \E c \in Calls : ExecQuery(c)
    \/ \E c \in Calls : ExecPrompt(c)
    \/ \E c \in Calls : ExecLand(c)
    \/ \E c \in Calls : SaveRefresh(c)

SpecSeal == SealInit /\ [][SealNext]_vars

\* ---------------------------------------------------------------- claims
Count(log, ev) == Len(SelectSeq(log, LAMBDA e : e = ev))
Last(log) == log[Len(log)]
HasStalePhrase(text) == text \cap StalePhrases # {}
OwnEntry(r) == [label |-> "Mail", walrus_id |-> r.walrusId]
IsPrefix(p, q) == Len(p) <= Len(q) /\ \A i \in 1..Len(p) : p[i] = q[i]
Accepted(r) == r.log # <<>> /\ Last(r.log) = "accept"

\* What an execute call does when the ledger rejects its first n-1 submissions
\* as stale and accepts the n-th.
RECURSIVE AcceptPattern(_)
AcceptPattern(n) ==
    IF n <= 1 THEN <<"resolve", "submit", "accept">>
    ELSE <<"resolve", "submit", "stale", "wait">> \o AcceptPattern(n - 1)

\* What it does when the ledger rejects n submissions in a row as stale.
RECURSIVE StalePattern(_)
StalePattern(n) ==
    IF n <= 1 THEN <<"resolve", "submit", "stale">>
    ELSE <<"resolve", "submit", "stale", "wait">> \o StalePattern(n - 1)

\* C1: a save started by an owner without a record, in which every prompt is
\* approved and every collaborator succeeds, so that the ledger created the
\* owner's one record, ends reporting success with its entry appended to that
\* record, and not with the record-creation failure.
C1_FirstSaveCreatesAndAppends ==
    \A c \in Calls :
        LET r == sv[c]
        IN  (r.pc = "done" /\ r.cap = Null /\ r.clean /\ r.created = "success"
               /\ Len(Owned(account)) = 1)
                => /\ r.outcome.type = "success"
                   /\ r.outcome.text # CreationFailedText
                   /\ \E j \in 1..Len(Owned(account)[1].entries) :
                         Owned(account)[1].entries[j] = OwnEntry(r)

\* C2: a save reports success only when the ledger reported effects status
\* "success" for its submission, so never while its entry is missing.
C2_SuccessOnlyOnSuccessStatus ==
    \A c \in Calls :
        sv[c].outcome.type = "success" => sv[c].result.status = "success"

\* C3: the ledger never holds more than one UserRecords object of a principal.
C3_AtMostOneOwnerRecord ==
    \A a \in Accounts : Len(Owned(a)) <= 1

\* C4: an execute call whose first N-1 submissions the ledger rejected as stale
\* and whose N-th it accepted made exactly N submissions and N resolver calls
\* (N <= maxRetries), each resolver call after the previous rejection and
\* before its own attempt's submission.
C4_NthAttemptSucceeds ==
    \A c \in Calls :
        LET r == sv[c]
            n == Count(r.log, "stale") + 1
        IN  (Accepted(r) /\ Count(r.log, "wait") = Count(r.log, "stale"))
                => /\ r.log = AcceptPattern(n)
                   /\ Count(r.log, "submit") = n
                   /\ Count(r.log, "resolve") = n
                   /\ n <= r.maxRetries

C4_Witness ==
    \E c \in Calls :
        Accepted(sv[c]) /\ sv[c].log = AcceptPattern(DefaultMaxRetries)

\* C5: each submission after a stale rejection is built on a newer version of
\* the record than the rejected one, and an accepted append leaves the record
\* with the entries it had when the submission was built (an external append
\* included) followed by the save's own entry.
C5_RetryBuildsOnExternalMutation ==
    \A c \in Calls :
        LET r == sv[c]
        IN  /\ \A i \in 2..Len(r.vers) : r.vers[i] > r.vers[i - 1]
            /\ (Accepted(r) /\ r.result.status = "success")
                => IsPrefix(Append(r.seen, OwnEntry(r)), ObjOf(r.cur).entries)

C5_Witness ==
    \E c \in Calls :
        LET r == sv[c]
        IN  /\ Accepted(r) /\ r.result.status = "success"
            /\ r.log = AcceptPattern(2)
            /\ r.vers[2] = r.vers[1] + 1
            /\ Len(r.seen) >= 1
            /\ r.seen[Len(r.seen)].label = "ext"
            /\ ObjOf(r.cur).entries = Append(r.seen, OwnEntry(r))

C7_AllStaleExhaustsBudget ==
    \A c \in Calls :
        LET r == sv[c]
        IN  /\ Count(r.log, "submit") <= 5
            /\ Len(r.waits) <= 4
            /\ \A i \in 1..Len(r.waits) : r.waits[i] = i * 2000
            /\ (r.log # <<>> /\ ~InExec(r)
                  /\ \A i \in 1..Len(r.log) :
                        r.log[i] \in {"resolve", "submit", "stale", "wait"})
                => /\ r.log = StalePattern(5)
                   /\ r.waits = <<2000, 4000, 6000, 8000>>
                   /\ r.pc = "done"
                   /\ r.raised.thrown /\ r.raised.text \in StaleTexts

C7_Witness ==
    \E c \in Calls :
        /\ sv[c].pc = "done"
        /\ sv[c].log = StalePattern(5)
        /\ sv[c].raised.text = {"current version"}

\* C8: a submission failure that is neither a version conflict nor a user
\* cancellation ends the execute call at once: the failed attempt is its last
\* submission and the call raises that failure with its message.
C8_OtherFailureEndsCall ==
    \A c \in Calls :
        LET r == sv[c]
        IN  (r.lastErr.kind = "other" /\ ~HasStalePhrase(r.lastErr.text))
                => /\ r.pc = "done"
                   /\ Last(r.log) = "other"
                   /\ r.log[Len(r.log) - 1] = "submit"
                   /\ Count(r.log, "submit") = r.lastErr.attempt
                   /\ r.raised = [thrown |-> TRUE, text |-> r.lastErr.text]
                   /\ r.outcome.type = "error" /\ r.outcome.text = r.lastErr.text

C8_Witness ==
    \E c \in Calls :
        /\ sv[c].lastErr = [kind |-> "other", text |-> {"Insufficient funds"},
                            attempt |-> 2]
        /\ sv[c].pc = "done"

\* C9: when the resolver returns null the execute call fails at once with
\* 'No user records found': nothing is submitted on that attempt and nothing
\* follows it.
C9_AbsentEndsCall ==
    \A c \in Calls :
        LET r == sv[c]
        IN  Count(r.log, "absent") > 0
                => /\ Last(r.log) = "absent"
                   /\ r.log[Len(r.log) - 1] = "resolve"
                   /\ Count(r.log, "submit") = r.attempt - 1
                   /\ r.pc = "done"
                   /\ r.raised = [thrown |-> TRUE, text |-> NoRecordsText]

C9_Witness ==
    \E c \in Calls :
        /\ Count(sv[c].log, "absent") > 0
        /\ sv[c].cap # Null
        /\ Len(Owned(account)) = 0

C11_RoundTrip ==
    (probe.op = "roundTrip" /\ probe.done /\ probe.out.saved) =>
        /\ probe.out.retrieved
        /\ probe.out.password = probe.arg.password
        /\ probe.out.website = probe.arg.website

C11_Witness ==
    /\ probe.op = "roundTrip" /\ probe.done /\ probe.out.saved
    /\ probe.arg.password = <<QUOTE, BACKSLASH>>
    /\ probe.arg.website = <<233>>
    /\ probe.arg.store # <<>>
    /\ probe.out.retrieved

\* C12: listing a record of k entries gives exactly k items in ledger order;
\* an entry whose envelope is missing or corrupt is listed with approved =
\* FALSE, and every other entry with the approved value of its own envelope.
C12_ListIsTotalAndPerEntry ==
    (probe.op = "list" /\ probe.done) =>
        LET entries == probe.arg.entries
            kinds   == probe.arg.kinds
        IN  /\ Len(probe.out) = Len(entries)
            /\ \A i \in 1..Len(entries) :
                  /\ probe.out[i].label = entries[i].label
                  /\ probe.out[i].walrusId =
                        (IF entries[i].walrus_id = EmptyId THEN UnknownId
                         ELSE entries[i].walrus_id)
                  /\ probe.out[i].sealApproved =
                        (/\ entries[i].walrus_id # EmptyId
                         /\ kinds[entries[i].walrus_id] \in {"approved", "legacyApproved"})

C12_Witness ==
    /\ probe.op = "list" /\ probe.done
    /\ Len(probe.arg.entries) = 3
    /\ probe.arg.entries[1].walrus_id = WalrusId(1)
    /\ probe.arg.entries[2].walrus_id = WalrusId(2)
    /\ probe.arg.entries[3].walrus_id = WalrusId(1)
    /\ probe.arg.kinds[WalrusId(1)] = "approved"
    /\ probe.arg.kinds[WalrusId(2)] = "notJSON"
    /\ probe.out[1].sealApproved /\ ~probe.out[2].sealApproved /\ probe.out[3].sealApproved

\* The queries of a resolver call that did not answer: thrown, or answered
\* with an object without id, version or digest.
Failed(o) == o \in {"fail", "invalid"}
FirstAnswer(outcomes) ==
    IF \E i \in DOMAIN outcomes : ~Failed(outcomes[i])
    THEN CHOOSE i \in DOMAIN outcomes :
            ~Failed(outcomes[i]) /\ \A j \in 1..(i - 1) : Failed(outcomes[j])
    ELSE 0

\* C13: when a query of the resolver succeeds and reports zero owned objects,
\* the call returns Absent at once: it does not raise, makes no further query
\* and waits no more.
C13_ZeroObjectsIsAbsent ==
    (probe.op = "resolve" /\ probe.done) =>
        LET j == FirstAnswer(probe.arg.outcomes)
        IN  (j > 0 /\ probe.arg.outcomes[j] = "zero") =>
                /\ probe.out.result = "absent"
                /\ probe.out.queries = j
                /\ Len(probe.out.waits) = j - 1

C13_Witness ==
    /\ probe.op = "resolve" /\ probe.done
    /\ probe.arg.outcomes = <<"zero", "fail", "object">>
    /\ probe.out.result = "absent"
    /\ probe.out.waits = <<>>

\* C14: a resolver call makes at most 3 queries, waits attempt x 1.5 s after
\* the 1st and after the 2nd failed query, returns the identity given by the
\* first query that succeeds, and raises the 3rd failure when all three fail.
C14_ResolverRetries ==
    (probe.op = "resolve" /\ probe.done) =>
        LET outcomes == probe.arg.outcomes
            j        == FirstAnswer(outcomes)
            n        == probe.out.queries
        IN  /\ n <= 3
            /\ probe.out.waits = [i \in 1..(n - 1) |-> i * 1500]
            /\ (j > 0 /\ outcomes[j] = "object") =>
                  probe.out.result = "identity" /\ probe.out.from = j
            /\ (j = 0) =>
                  probe.out.result = "raise" /\ probe.out.from = 3 /\ n = 3

\* The number of ledger entries, over all records, that point at a walrus id.
Appended(walrusId) ==
    Cardinality(UNION {{<<i, j>> : j \in {k \in 1..Len(objs[i].entries) :
                                            objs[i].entries[k].walrus_id = walrusId}} :
                       i \in 1..Len(objs)})

\* C15: one save appends at most one entry to the ledger, however many times
\* its submission was rejected as stale and retried.
C15_AtMostOneEntryPerSave ==
    \A c \in Calls :
        sv[c].walrusId # EmptyId => Appended(sv[c].walrusId) <= 1

C15_Witness ==
    \E c \in Calls :
        /\ sv[c].pc = "done"
        /\ Count(sv[c].log, "stale") >= 2
        /\ Count(sv[c].log, "accept") = 1
        /\ Appended(sv[c].walrusId) = 1

\* C17: when the user dismissed a wallet prompt of a save, the prompt of the
\* record creation or a prompt of the append, the outcome reported for that
\* save is a cancellation, not a failure.
C17_CancellationIsReported ==
    \A c \in Calls :
        (/\ sv[c].pc = "done"
         /\ \/ sv[c].created = "cancelled"
            \/ Count(sv[c].log, "cancel") > 0)
        => sv[c].outcome.kind = "cancelled"

\* The positions of a save from its first possible ledger submission on.
LedgerPhases == {"create", "create_check", "recheck", "resolve", "prompt", "land",
                 "refresh"}

\* C18: the phases of a save are gated. While a save is in its encryption and
\* put phases the ledger does not change; a save whose encryption failed
\* leaves the blob store as it was; and a save enters a ledger phase only with
\* the content address that its put returned, the blob being in the store.
C18_PhasesAreGated ==
    [][\A c \in Calls :
          /\ sv[c].pc = "encrypt" => objs' = objs
          /\ (sv[c].pc = "encrypt" /\ sv'[c].outcome.text = EncryptFailedText)
                => localStorage' = localStorage
          /\ sv'[c].pc \in LedgerPhases =>
                /\ sv'[c].walrusId # EmptyId
                /\ getStorageKey(sv'[c].walrusId) \in DOMAIN localStorage']_vars

C18_Witness ==
    \E c \in Calls :
        /\ sv[c].pc = "done"
        /\ sv[c].outcome.text = EncryptFailedText
        /\ sv[c].walrusId = EmptyId
        /\ localStorage = <<>>

\* C20: checkSealApproval answers TRUE exactly when the fetch succeeded, the
\* object exists, the wallet has an address and the object's owner is that
\* address; in every other case, a fetch error included, it answers FALSE.
\* Neither an approval transaction executed on the object nor the approved
\* flag of the stored envelope changes the answer.
C20_ApprovalIsOwnership ==
    (probe.op = "approval" /\ probe.done) =>
        LET w == probe.arg
        IN  /\ probe.out \in BOOLEAN
            /\ probe.out = (/\ w.fetch = "answered"
                            /\ w.object # NoObject
                            /\ w.address \in Accounts
                            /\ w.object.owner = [kind |-> "AddressOwner",
                                                 addr |-> w.address])

C20_Witness ==
    /\ probe.op = "approval" /\ probe.done
    /\ probe.arg.fetch = "answered"
    /\ probe.arg.object = [owner |-> [kind |-> "AddressOwner", addr |-> "A"],
                           version |-> 2]
    /\ probe.arg.address = "A"
    /\ probe.arg.store = StoredUnder("notApproved", WalrusId(1))
    /\ probe.out = TRUE

\* The save of window c met nothing but version conflicts, fewer than its
\* budget, and its submission was executed with status success.
OnlyConflicts(c) ==
    /\ sv[c].pc = "done"
    /\ \A i \in 1..Len(sv[c].log) :
          sv[c].log[i] \in {"resolve", "submit", "stale", "wait", "accept"}
    /\ Count(sv[c].log, "stale") < sv[c].maxRetries
    /\ sv[c].result.status = "success"

\* C16: two saves in flight at the same time on the same record, one of which
\* met a conflict with the other: each ends with its own entry appended exactly
\* once or with a reported failure; and when each met only conflicts, fewer
\* than its budget, both entries are in the record, at different places.
C16_ConcurrentSavesBothLand ==
    (/\ \A c \in Windows : sv[c].pc = "done"
     /\ \E c \in Windows : Count(sv[c].log, "stale") > 0)
    => /\ \A c \in Windows :
             \/ sv[c].walrusId # EmptyId /\ Appended(sv[c].walrusId) = 1
             \/ sv[c].outcome.type # "success"
       /\ (\A c \in Windows : OnlyConflicts(c)) =>
             /\ \A c \in Windows : Appended(sv[c].walrusId) = 1
             /\ sv[1].walrusId # sv[2].walrusId

\* C19: two fully successful saves of the same label and plaintext leave two
\* entries in the record, with different walrus ids and different entry ids,
\* each with its own blob in the store.
C19_IdenticalSavesAreDistinct ==
    (/\ \A c \in Windows : /\ sv[c].pc = "done"
                           /\ sv[c].outcome.type = "success"
                           /\ sv[c].result.status = "success"
     /\ sv[1].password = sv[2].password)
    => LET entries == Owned(account)[1].entries
           listed  == processedEntries(localStorage, entries)
       IN  \E i, j \in 1..Len(entries) :
              /\ i # j
              /\ entries[i] = [label |-> "Mail", walrus_id |-> sv[1].walrusId]
              /\ entries[j] = [label |-> "Mail", walrus_id |-> sv[2].walrusId]
              /\ sv[1].walrusId # sv[2].walrusId
              /\ listed[i].id # listed[j].id
              /\ getStorageKey(sv[1].walrusId) \in DOMAIN localStorage
              /\ getStorageKey(sv[2].walrusId) \in DOMAIN localStorage
              /\ getStorageKey(sv[1].walrusId) # getStorageKey(sv[2].walrusId)

C19_Witness ==
    /\ \A c \in Windows : /\ sv[c].pc = "done"
                          /\ sv[c].outcome.type = "success"
                          /\ sv[c].result.status = "success"
    /\ sv[1].password = sv[2].password
    /\ Len(Owned(account)[1].entries) >= 2
    /\ Appended(sv[1].walrusId) = 1 /\ Appended(sv[2].walrusId) = 1

\* C24: for an owner who has no record, a list whose read is answered leaves
\* the held record handle Absent and the held entries empty, whatever the
\* component held before.
C24_ListOfNoRecordIsEmpty ==
    Len(Owned(account)) = 0 =>
        checkUserRecords(account, TRUE) = [userRecords |-> Null, passwords |-> <<>>]

\* C25: retrievePassword changes neither the ledger nor the blob store on any
\* of its paths: a step of the handler submits nothing, creates no object,
\* writes no blob and moves no savePassword or executor call.
C25_RetrieveChangesNothing ==
    [][rt' # rt =>
          /\ objs' = objs
          /\ nextId' = nextId
          /\ localStorage' = localStorage
          /\ nextBlob' = nextBlob
          /\ sv' = sv]_vars

C25_Witness ==
    /\ ~rt.busy
    /\ rt.outcome = "copied"
    /\ \E i \in 1..Len(objs) : objs[i].id = userRecords

\* C26: a save needs exactly one approved wallet transaction: no wallet prompt
\* and no ledger read have been issued when the encrypt phase is over, and a
\* save that completes successfully has issued exactly one signing prompt.
C26_OneApprovedPromptPerSave ==
    \A c \in Calls :
        /\ sv[c].pc = "encrypt" => sv[c].log = <<>> /\ sv[c].created = "none"
        /\ sv[c].outcome.type = "success"
              => Count(sv[c].log, "submit") = 1 /\ sv[c].created = "none"

\* C30: partial completion is not rolled back. When a save ends with a failure
\* after its put succeeded, the step that ends it changes neither the ledger
\* nor the blob store, the blob is still stored under its walrus id, with the
\* bytes it was written with since no step changes or removes a stored blob,
\* and no record entry references it.
FailedAfterPut(r) ==
    r.pc = "done" /\ r.outcome.type # "success" /\ r.walrusId # EmptyId

C30_NoRollback ==
    [][/\ \A k \in DOMAIN localStorage :
             k \in DOMAIN localStorage' /\ localStorage'[k] = localStorage[k]
       /\ \A c \in Calls :
             FailedAfterPut(sv'[c])
                 => /\ getStorageKey(sv'[c].walrusId) \in DOMAIN localStorage'
                    /\ \A i \in 1..Len(objs') :
                          \A j \in 1..Len(objs'[i].entries) :
                              objs'[i].entries[j].walrus_id # sv'[c].walrusId
                    /\ ~FailedAfterPut(sv[c])
                          => objs' = objs /\ localStorage' = localStorage]_vars

\* a save that stored its blob and failed in the submission phase
C30_Witness ==
    \E c \in Calls :
        /\ FailedAfterPut(sv[c])
        /\ getStorageKey(sv[c].walrusId) \in DOMAIN localStorage
        /\ Count(sv[c].log, "submit") > 0

\* C23: the longest total time one execute call can spend in its backoff waits
\* is a quadratic function of maxRetries: with waits of attempt x 2 s it is
\* maxRetries x (maxRetries - 1) seconds, reached when every attempt is
\* rejected with a version conflict; no call waits longer.
RECURSIVE SumOf(_)
SumOf(seq) == IF seq = <<>> THEN 0 ELSE Head(seq) + SumOf(Tail(seq))

AllStale(arg) == arg.wallet /\ arg.stale >= arg.maxRetries

C23_TotalBackoffIsQuadratic ==
    (probe.op = "execute" /\ probe.done) =>
        LET m == probe.arg.maxRetries
        IN  /\ SumOf(probe.out.waits) <= m * (m - 1) * 1000
            /\ AllStale(probe.arg) => SumOf(probe.out.waits) = m * (m - 1) * 1000

C23_Witness ==
    /\ probe.op = "execute" /\ probe.done
    /\ AllStale(probe.arg)
    /\ probe.arg.maxRetries = MaxAttempts
    /\ Len(probe.out.waits) = MaxAttempts - 1

\* C23 as stated: the longest total backoff is a linear function of
\* maxRetries, the line through its values for maxRetries 1 and 2.
MaxBackoff(m) ==
    SumOf(executeTransactionWithRetry(
            [wallet |-> TRUE, maxRetries |-> m, stale |-> m,
             staleText |-> {"current version"}, then |-> "result"], 1, <<>>).waits)

C23_TotalBackoffIsLinear ==
    (probe.op = "execute" /\ probe.done /\ AllStale(probe.arg)) =>
        SumOf(probe.out.waits)
            = MaxBackoff(1)
              + (probe.arg.maxRetries - 1) * (MaxBackoff(2) - MaxBackoff(1))

\* C22: every call of the resolver and of the executor ends within its budget
\* of attempts, and ends by returning (an identity, null, a submission result)
\* or by raising: the end of the function body after the loop is never
\* reached, and a call whose attempts are used up raises the last failure.
C22_CallsEndReported ==
    /\ (probe.op = "resolve" /\ probe.done) =>
          /\ probe.out.result \in {"identity", "absent", "raise"}
          /\ probe.out.from \in 1..ResolverMaxRetries
          /\ probe.out.queries <= ResolverMaxRetries
          /\ Len(probe.out.waits) < ResolverMaxRetries
          /\ (\A i \in 1..ResolverMaxRetries :
                 probe.arg.outcomes[i] \in {"fail", "invalid"})
                => probe.out.result = "raise" /\ probe.out.from = ResolverMaxRetries
    /\ (probe.op = "execute" /\ probe.done) =>
          /\ probe.out.ended \in {"result", "raise"}
          /\ probe.out.attempts <= probe.arg.maxRetries
          /\ Len(probe.out.waits) < probe.arg.maxRetries
          /\ AllStale(probe.arg)
                => /\ probe.out.ended = "raise"
                   /\ probe.out.text = probe.arg.staleText
                   /\ probe.out.attempts = probe.arg.maxRetries

C22_Witness ==
    /\ probe.op = "execute" /\ probe.done
    /\ AllStale(probe.arg)
    /\ probe.arg.maxRetries = DefaultMaxRetries
    /\ probe.out.ended = "raise"
    /\ probe.out.waits = <<2000, 4000, 6000, 8000>>

\* C28: the addresses that successive storeInWalrus calls return differ from
\* one another, no call changes or removes a blob stored before it, and
\* retrieveFromWalrus on a returned address gives the data of the call that
\* returned it.
C28_PutsNeverCollide ==
    (probe.op = "put" /\ probe.done) =>
        LET ids == probe.out.ids
        IN  /\ Len(ids) = Len(probe.arg)
            /\ probe.out.kept
            /\ \A i \in 1..Len(ids) :
                  /\ ids[i] # EmptyId <=> probe.arg[i].quotaOk
                  /\ ids[i] # EmptyId =>
                        /\ \A j \in 1..(i - 1) : ids[j] # ids[i]
                        /\ retrieveFromWalrus(probe.out.store, ids[i])
                              = [ok |-> TRUE, data |-> probe.arg[i].data]

C28_Witness ==
    /\ probe.op = "put" /\ probe.done
    /\ Len(probe.out.ids) = MaxPuts
    /\ \A i \in 1..MaxPuts : probe.out.ids[i] # EmptyId
    /\ probe.arg[1].data = probe.arg[MaxPuts].data
    /\ probe.arg[1].data # probe.arg[2].data

\* C29: retrieveFromWalrus fails for every address that no earlier
\* storeInWalrus call returned, also for one that differs from a returned
\* address by a prefix only.
Issued(puts) ==
    LET ids == storeAll(puts, 1, NoPuts).ids
    IN  {ids[i] : i \in 1..Len(ids)} \ {EmptyId}

C29_UnissuedIsNotFound ==
    (probe.op = "get" /\ probe.done /\ probe.arg.address \notin Issued(probe.arg.puts))
        => ~probe.out.ok

\* C21: the approved flag of an envelope is the one it was encrypted with.
\* Whatever approval requests, saves, lists and retrieves are made, no step
\* changes or removes a stored blob, every list reports for an entry the flag
\* its envelope was written with, and so does every retrieve.
WrittenApproved(walrusId) == walrusId = WalrusId(1)

C21_ApprovedIsFrozen ==
    [][/\ \A k \in DOMAIN localStorage :
             k \in DOMAIN localStorage' /\ localStorage'[k] = localStorage[k]
       /\ \A i \in 1..Len(passwords') :
             passwords'[i].sealApproved = WrittenApproved(passwords'[i].walrusId)
       /\ (rt.busy /\ ~rt'.busy)
             => /\ rt'.outcome = "copied"
                /\ rt'.approved = WrittenApproved(rt.walrusId)]_vars

\* an approval was executed on A's record, a save built on the version it left
\* was listed, and the password saved with approved: false was retrieved
C21_Witness ==
    /\ sealStatus.result.success /\ sealStatus.cur = 1
    /\ \E c \in Calls : sv[c].pc = "done" /\ sv[c].outcome.type = "success"
                        /\ sv[c].vers = <<4>>
    /\ Len(passwords) = 3
    /\ passwords[1].sealApproved /\ ~passwords[2].sealApproved
    /\ WalrusId(2) \in rtReads /\ rt.outcome = "copied" /\ ~rt.approved

\* C27: every submission that mutates a record, save_entry or seal_approve, is
\* built on the object id that the resolver returned in the same attempt and
\* mutates that object only, whatever record the component holds; the held
\* record decides only whether the creation phase runs.
ChangedIds == {objs[i].id : i \in {j \in 1..Len(objs) : objs'[j] # objs[j]}}

C27_SubmissionsUseResolvedId ==
    [][/\ Len(objs') = Len(objs)
       /\ \A c \in Calls :
             /\ (sv[c].pc = "resolve" /\ sv'[c].pc = "prompt")
                   => sv'[c].cur = Owned(account)[1].id
             /\ (sv[c].pc = "prompt" /\ sv'[c].pc = "land")
                   => sv'[c].cur = sv[c].cur
             /\ (sv[c].pc = "encrypt" /\ sv'[c].walrusId # EmptyId)
                   => (sv'[c].pc = "create" <=> sv[c].cap = Null)
       /\ (sealStatus.pc = "resolve" /\ sealStatus'.pc = "prompt")
             => sealStatus'.cur = Owned(account)[1].id
       /\ (sealStatus.pc = "prompt" /\ sealStatus'.pc = "land")
             => sealStatus'.cur = sealStatus.cur
       /\ (objs' # objs /\ nExt' = nExt)     \* not another client's mutation
             => \/ \E c \in Calls : /\ sv[c].pc = "land" /\ sv'[c].pc # "land"
                                    /\ ChangedIds = {sv[c].cur}
                \/ /\ sealStatus.pc = "land" /\ sealStatus'.pc # "land"
                   /\ ChangedIds = {sealStatus.cur}]_vars

\* both submissions were executed on B's record while A's record was held
C27_Witness ==
    /\ account = "B"
    /\ sealStatus.result.success /\ sealStatus.cur = 2 /\ sealStatus.checkedFor = 1
    /\ \E c \in Calls : /\ Count(sv[c].log, "accept") > 0
                        /\ sv[c].cur = 2 /\ sv[c].cap = 1

\* C33: the two retry loops classify errors alike, an error is retried by the
\* save executor exactly when the approval path retries it, and the two
\* resolver copies wait the same time after a failed read.
C33_LoopsClassifyAlike ==
    (probe.op = "classify" /\ probe.done) =>
        /\ probe.out.executor = probe.out.approval
        /\ probe.out.componentWait = probe.out.protocolWait

\* The shape of one requestSealApproval call's log: at most SealMaxRetries
\* submissions, each right after a resolve of the record, and a new attempt
\* only after a wait that follows a version-conflict rejection.
SealLoopShape ==
    LET l == sealStatus.log
    IN  /\ Count(l, "submit") <= SealMaxRetries
        /\ \A i \in 1..Len(l) :
              /\ l[i] = "submit" => (i > 1 /\ l[i - 1] = "resolve")
              /\ l[i] = "wait" => (i > 1 /\ l[i - 1] = "stale")
              /\ (l[i] = "resolve" /\ i > 1) => l[i - 1] = "wait"

\* C32 (as amended): requestSealApproval makes at most 3 submissions, resolves
\* the record before each one and submits again only after a version-conflict
\* rejection; it returns success = true exactly when a submission completed
\* with effects status "success"; it returns success = false with an error
\* when no submission completed (wallet not connected, record absent,
\* cancellation, other failure, conflicts on all attempts), and success =
\* false without an error when a submission completed with another status.
C32_ApprovalRequestAlwaysReturns ==
    /\ SealLoopShape
    /\ sealStatus.pc = "done" =>
          /\ sealStatus.result.success <=> sealStatus.effects = "success"
          /\ sealStatus.result.error # NoText <=> sealStatus.effects = "none"

\* Conflicts on all three attempts: the call ended with the third rejection's
\* error after three submissions and two waits.
C32_Witness ==
    /\ sealStatus.pc = "done"
    /\ Count(sealStatus.log, "stale") = SealMaxRetries
    /\ Count(sealStatus.log, "submit") = SealMaxRetries
    /\ sealStatus.waits = <<SealBackoffMs, 2 * SealBackoffMs>>
    /\ ~sealStatus.result.success
    /\ sealStatus.result.error \in StaleTexts

\* C32 (as stated): every call that does not return success = true returns an
\* error.
C32_EveryFailureCarriesAnError ==
    (sealStatus.pc = "done" /\ ~sealStatus.result.success) =>
        sealStatus.result.error # NoText

\* C34: from the start of a savePassword call until it finishes, loading is
\* true, so the Save control (disabled while loading) cannot start a second
\* save, the nested record creation and list refresh included.
C34_LoadingGuardsSave ==
    \A c \in Calls : ~Idle(sv[c]) => loading

\* The entries that saves of this application appended (label "Mail"), as
\* <<object, position>> pairs.
SavedEntries ==
    UNION {{<<i, j>> : j \in {k \in 1..Len(objs[i].entries) :
                                 objs[i].entries[k].label = "Mail"}} :
           i \in 1..Len(objs)}

\* C35: every entry appended by a save has a content address that is neither
\* missing nor "unknown" and whose blob is in the blob store, so that
\* retrieveFromWalrus finds it; and wherever it is listed its control is a
\* valid one.
C35_SavedEntriesResolve ==
    /\ \A p \in SavedEntries :
          LET e == objs[p[1]].entries[p[2]]
          IN  /\ e.walrus_id \notin {EmptyId, UnknownId}
              /\ retrieveFromWalrus(localStorage, e.walrus_id).ok
    /\ \A c \in Calls, k \in 1..Len(passwords) :
          (Accepted(sv[c]) /\ passwords[k].walrusId = sv[c].walrusId) =>
              isValidEntry(passwords[k])

\* A save was accepted, its entry is on the ledger and listed, and a retrieve
\* of it read its blob back.
C35_Witness ==
    \E c \in Calls :
        /\ sv[c].pc = "done"
        /\ Accepted(sv[c])
        /\ \E p \in SavedEntries :
              objs[p[1]].entries[p[2]].walrus_id = sv[c].walrusId
        /\ \E k \in 1..Len(passwords) : passwords[k].walrusId = sv[c].walrusId
        /\ retrieveFromWalrus(localStorage, sv[c].walrusId).ok
        /\ sv[c].walrusId \in rtReads
        /\ rt.outcome = "copied"

\* The step is the acceptance of call c's save_entry by the ledger and e is
\* the entry that call submitted.
SaveAppends(c, e) ==
    /\ sv[c].pc = "land"
    /\ Accepted(sv'[c]) /\ Len(sv'[c].log) = Len(sv[c].log) + 1
    /\ e = OwnEntry(sv[c])

\* C31: in every step every record stays on the ledger with its entries kept
\* as a prefix, unchanged and in order; a record gains at most one entry per
\* step, at the end; an entry that is not another client's appears only when
\* the ledger accepts a save's append; a new record starts without entries.
C31_EntriesOnlyGrow ==
    [][/\ \A i \in 1..Len(objs) :
             \E k \in 1..Len(objs') :
                /\ objs'[k].id = objs[i].id
                /\ objs'[k].owner = objs[i].owner
                /\ IsPrefix(objs[i].entries, objs'[k].entries)
                /\ Len(objs'[k].entries) <= Len(objs[i].entries) + 1
                /\ Len(objs'[k].entries) > Len(objs[i].entries) =>
                      LET e == Last(objs'[k].entries)
                      IN  \/ e.label = "ext" /\ nExt' = nExt + 1
                          \/ \E c \in Calls : SaveAppends(c, e) /\ sv[c].cur = objs[i].id
       /\ \A k \in 1..Len(objs') :
             (\A i \in 1..Len(objs) : objs[i].id # objs'[k].id) =>
                 objs'[k].entries = <<>>]_vars

\* A save's entry stands after an entry that was on the record before it.
C31_Witness ==
    \E c \in Calls, i \in 1..Len(objs) :
        /\ Accepted(sv[c])
        /\ Len(objs[i].entries) >= 2
        /\ Last(objs[i].entries) = OwnEntry(sv[c])
        /\ objs[i].entries[1].label = "ext"

\* C36: an execute call with budget maxRetries makes at most maxRetries
\* wallet submissions and at most 3 x maxRetries ledger read queries, and
\* when a resolver call fails on all 3 of its reads the execute call ends in
\* that attempt with the read error, with no submission after it.
C36_SubmissionsAndReadsAreBounded ==
    (probe.op = "count" /\ probe.done) =>
        LET m == probe.arg.maxRetries
            out == probe.out
        IN  /\ out.submissions <= m
            /\ out.reads <= ResolverMaxRetries * m
            /\ out.late = 0
            /\ out.exhausted # 0 =>
                  /\ out.ended = "raise" /\ out.text = ReadErrorText
                  /\ out.attempts = out.exhausted
            /\ \A a \in 1..(out.attempts - 1) :
                  probe.arg.script[a].fails < ResolverMaxRetries

\* Both limits are met: every attempt's submission is rejected as stale after
\* two failed reads and a third that answers.
C36_Witness ==
    /\ probe.op = "count" /\ probe.done
    /\ probe.arg.maxRetries = MaxBudget
    /\ probe.out.submissions = probe.arg.maxRetries
    /\ probe.out.reads = ResolverMaxRetries * probe.arg.maxRetries
    /\ probe.out.ended = "raise"
====
